---- MODULE Spec2Model ----
(***************************************************************************)
(* Account credential and two-factor authentication core of the parser     *)
(* front end (src/src/auth/AuthProvider.tsx), as a state machine.          *)
(*                                                                         *)
(* Strings are sequences of one-character strings, so that trimming, case  *)
(* folding, whitespace stripping and hashing are computed as the code      *)
(* computes them.  Timestamps are milliseconds, as Date.now() gives them.  *)
(***************************************************************************)
EXTENDS Integers, Sequences, FiniteSets, TLC

(***************************************************************************)
(* Characters and strings                                                  *)
(***************************************************************************)

\* The printable ASCII characters, code 32 first (the double quote, the
\* backslash and the backtick stand as words: no input uses them).
Ascii ==
  << " ", "!", "dquote", "#", "$", "%", "&", "'", "(", ")", "*", "+", ",", "-", ".", "/",
     "0", "1", "2", "3", "4", "5", "6", "7", "8", "9", ":", ";", "<", "=", ">", "?",
     "@", "A", "B", "C", "D", "E", "F", "G", "H", "I", "J", "K", "L", "M", "N", "O",
     "P", "Q", "R", "S", "T", "U", "V", "W", "X", "Y", "Z", "[", "backslash", "]", "^", "_",
     "backtick", "a", "b", "c", "d", "e", "f", "g", "h", "i", "j", "k", "l", "m", "n", "o",
     "p", "q", "r", "s", "t", "u", "v", "w", "x", "y", "z", "{", "|", "}", "~" >>

\* The code of every character: the printable ones, tab, line feed and
\* carriage return.
CharCodes ==
  [c \in {Ascii[i] : i \in 1..Len(Ascii)} \cup {"\t", "\n", "\r"} |->
     CASE c = "\t" -> 9
       [] c = "\n" -> 10
       [] c = "\r" -> 13
       [] OTHER -> 31 + (CHOOSE i \in 1..Len(Ascii) : Ascii[i] = c)]

\* String.prototype.charCodeAt for one character.
charCodeAt(c) == CharCodes[c]

\* The characters the regular expression class \s and trim() treat as blank.
Whitespace == {" ", "\t", "\n", "\r"}

Digits == {"0", "1", "2", "3", "4", "5", "6", "7", "8", "9"}

IsUpper(c) == charCodeAt(c) >= 65 /\ charCodeAt(c) <= 90

IsLower(c) == charCodeAt(c) >= 97 /\ charCodeAt(c) <= 122

\* String.prototype.toLowerCase
toLowerCase(s) ==
  [i \in 1..Len(s) |-> IF IsUpper(s[i]) THEN Ascii[charCodeAt(s[i]) + 32 - 31] ELSE s[i]]

\* String.prototype.toUpperCase
toUpperCase(s) ==
  [i \in 1..Len(s) |-> IF IsLower(s[i]) THEN Ascii[charCodeAt(s[i]) - 32 - 31] ELSE s[i]]

RECURSIVE trimStart(_)
trimStart(s) ==
  IF s # <<>> /\ Head(s) \in Whitespace THEN trimStart(Tail(s)) ELSE s

RECURSIVE trimEnd(_)
trimEnd(s) ==
  IF s # <<>> /\ s[Len(s)] \in Whitespace THEN trimEnd(SubSeq(s, 1, Len(s) - 1)) ELSE s

\* String.prototype.trim
trim(s) == trimEnd(trimStart(s))

\* s.replace(/\s+/g, empty string)
stripWhitespace(s) == SelectSeq(s, LAMBDA c : c \notin Whitespace)

\* s.replace(/\s+/g, one space): every run of blanks becomes one space.
RECURSIVE collapseWhitespace(_)
collapseWhitespace(s) ==
  IF s = <<>> THEN <<>>
  ELSE IF Head(s) \in Whitespace
       THEN <<" ">> \o collapseWhitespace(trimStart(s))
       ELSE <<Head(s)>> \o collapseWhitespace(Tail(s))

\* The placeholder display name (the source's literal is Cyrillic; it is
\* written here in Latin transliteration).
DefaultName == <<"K", "o", "r", "y", "s", "t", "u", "v", "a", "c", "h">>

normalizeName(name) ==
  LET trimmed == trim(collapseWhitespace(name))
  IN  IF trimmed # <<>> THEN trimmed ELSE DefaultName

normalizeEmail(email) == toLowerCase(trim(email))

normalizeCode(code) == toUpperCase(stripWhitespace(code))

\* Number.prototype.toString for an integer.
RECURSIVE natToString(_)
natToString(n) ==
  IF n < 10 THEN <<Ascii[n + 17]>> ELSE natToString(n \div 10) \o <<Ascii[(n % 10) + 17]>>

intToString(n) == IF n < 0 THEN <<"-">> \o natToString(-n) ELSE natToString(n)

\* A faulty variant of padStart0: nothing is added.
unpadded(s, width) == s

\* String.prototype.padStart(width, zero digit)
RECURSIVE padStart0(_, _)
padStart0(s, width) == IF Len(s) >= width THEN s ELSE padStart0(<<"0">> \o s, width)

(***************************************************************************)
(* The one-time-code generator                                             *)
(***************************************************************************)

\* Bitwise exclusive or of two naturals below 2^16.
RECURSIVE xor(_, _)
xor(a, b) ==
  IF a = 0 THEN b
  ELSE IF b = 0 THEN a
  ELSE 2 * xor(a \div 2, b \div 2) + ((a + b) % 2)

\* One round of hashString on the 32-bit word hi * 2^16 + lo:
\* hash = ((hash << 5) + hash) ^ code, kept to 32 bits.
hashStep(w, code) ==
  LET lo33 == w.lo * 33
      hi33 == w.hi * 33 + (lo33 \div 65536)
  IN  [hi |-> hi33 % 65536, lo |-> xor(lo33 % 65536, code)]

RECURSIVE hashFrom(_, _)
hashFrom(w, value) ==
  IF value = <<>> THEN w ELSE hashFrom(hashStep(w, charCodeAt(Head(value))), Tail(value))

\* hashString(value): the unsigned 32-bit result as its two 16-bit halves
\* (5381 = 0 * 2^16 + 5381).
hashString(value) == hashFrom([hi |-> 0, lo |-> 5381], value)

\* (hi * 2^16 + lo) % 1000000 without leaving 32 bits.
mod1000000(w) == (((((w.hi * 256) % 1000000) * 256) % 1000000) + w.lo) % 1000000

\* Math.floor(timestamp / 30000)
windowOf(timestamp) == timestamp \div 30000

\* The code of a secret in a window: hashString of secret:window, reduced
\* modulo 1000000 and padded to six digits.
codeOfWindow(secret, window) ==
  LET hash == hashString(secret \o <<":">> \o intToString(window))
  IN  padStart0(natToString(mod1000000(hash)), 6)

\* codeOfWindow, tabulated for the secrets and the windows the model meets.
TabulatedSecrets ==
  {<<"J", "B", "S", "W", "Y", "3", "D", "P", "E", "H", "P", "K", "3", "P", "X", c>> :
     c \in {"A", "B", "C", "D", "E", "F"}}

TabulatedWindows == (0 - 2)..128

CodeTable == [secret \in TabulatedSecrets, window \in TabulatedWindows |->
                codeOfWindow(secret, window)]

generateTwoFactorCode(secret, timestamp) ==
  LET window == windowOf(timestamp)
  IN  IF secret \in TabulatedSecrets /\ window \in TabulatedWindows
        THEN CodeTable[secret, window]
        ELSE codeOfWindow(secret, window)

\* /^\d{6}$/
isSixDigits(s) == Len(s) = 6 /\ \A i \in 1..6 : s[i] \in Digits

\* A faulty variant of verifyTwoFactorCode: any six digits are accepted.
acceptsSixDigits(secret, code, now) == isSixDigits(stripWhitespace(code))

\* A faulty variant of verifyTwoFactorCode: only the code of the current
\* window is accepted.
currentWindowOnly(secret, code, now) ==
  LET sanitized == stripWhitespace(code)
  IN  isSixDigits(sanitized) /\ generateTwoFactorCode(secret, now) = sanitized

\* A faulty variant of verifyTwoFactorCode: two windows each way are tried.
acceptsTwoWindows(secret, code, now) ==
  LET sanitized == stripWhitespace(code)
  IN  /\ isSixDigits(sanitized)
      /\ \E offset \in {0, -1, 1, -2, 2} :
           generateTwoFactorCode(secret, now + offset * 30000) = sanitized

\* verifyTwoFactorCode(secret, code) with Date.now() = now; the windows are
\* tried in the order 0, -1, +1.
verifyTwoFactorCode(secret, code, now) ==
  LET sanitized == stripWhitespace(code)
  IN  /\ isSixDigits(sanitized)
      /\ \E offset \in {0, -1, 1} :
           generateTwoFactorCode(secret, now + offset * 30000) = sanitized

(***************************************************************************)
(* Program constants and the bounds of the model                           *)
(***************************************************************************)

CHALLENGE_EXPIRY_MS == 5 * 60 * 1000

VERIFICATION_EXPIRY_MS == 15 * 60 * 1000

\* password.trim().length < 6 is refused.
MinPasswordLength == 6

\* The number of codes generateRecoveryCodes() makes (6 in the source; the
\* model generates CodeCount of them).
CodeCount == 2

\* Accounts that may be created, challenges that may be issued, calls that
\* may be suspended at the email-send at once, and clock advances.
MaxAccounts == 2

MaxChallenges == 2

MaxInflight == 1

MaxTicks == 1

\* Operations in one run of the specifications that bound the length of a run.
MaxSteps == 7

\* The amounts by which the clock advances between two operations: the
\* challenge lifetime, and just over the verification-code lifetime.
TickSteps == {CHALLENGE_EXPIRY_MS, VERIFICATION_EXPIRY_MS + 1}

(***************************************************************************)
(* Values                                                                  *)
(***************************************************************************)

\* An absent (undefined, null or empty) string and an absent timestamp: the
\* code tests both by truthiness only.
NoString == <<>>

NoTime == 0

\* Date.prototype.toISOString, as an injective encoding of the timestamp.
toISOString(ts) == <<"iso", ts>>

\* null in place of a User, and in place of the pending-verification record.
NoUser ==
  [id |-> 0, name |-> NoString, email |-> NoString, createdAt |-> NoString,
   twoFactorEnabled |-> FALSE, emailVerified |-> FALSE]

NoPending == [email |-> NoString, expiresAt |-> NoString]

\* A faulty variant of userOf: the user is never marked as verified.
userUnverified(acc) ==
  [id |-> acc.id, name |-> acc.name, email |-> acc.email, createdAt |-> acc.createdAt,
   twoFactorEnabled |-> acc.twoFactorEnabled, emailVerified |-> FALSE]

\* The User built from an account (login, verifyEmail, verifyTwoFactor).
userOf(acc) ==
  [id |-> acc.id, name |-> acc.name, email |-> acc.email, createdAt |-> acc.createdAt,
   twoFactorEnabled |-> acc.twoFactorEnabled, emailVerified |-> acc.emailVerified]

\* What a call returned or threw: the operation, its outcome, the normalized
\* email it was about (if any) and the returned value (if any).
Ret(op, status, email, out) == [op |-> op, status |-> status, email |-> email, out |-> out]

(***************************************************************************)
(* The state                                                               *)
(***************************************************************************)

VARIABLES
  accounts,             \* useState<StoredAccount[]>: the account records, in order
  challenges,           \* useState<Record<string, TwoFactorChallenge>>, as a set of records
  user,                 \* useState<User | null>
  pendingVerification,  \* useState<{email, expiresAt} | null>
  now,                  \* Date.now()
  tasks,                \* register / resendVerification calls suspended at the email-send
  challengesMade,       \* how many challenge ids createId() has handed out
  ticks,                \* how many times the clock has advanced
  ret,                  \* the outcome of the last operation
  spent,                \* history: one recovery code that was accepted, and for which account
  mode,                 \* how random values are drawn: "fresh", "spent" or "collide"
  fuel                  \* how many more operations the run may take (below 0: any number)

vars ==
  <<accounts, challenges, user, pendingVerification, now, tasks, challengesMade, ticks,
    ret, spent, mode, fuel>>

\* The four pieces of React state the operations read and write.
NoSpent == [id |-> 0, code |-> NoString]

(***************************************************************************)
(* Random values                                                           *)
(*                                                                         *)
(* Math.random() and crypto.randomUUID() are choices among their possible  *)
(* outcomes.  In the modes "fresh" and "spent" a generated value differs   *)
(* from every value of its kind the state still holds (the least such      *)
(* value of an enumeration of outcomes is taken: which one is immaterial,  *)
(* values are only compared for equality).  In the mode "collide" a        *)
(* generated recovery code may repeat another one.                         *)
(***************************************************************************)

RECOVERY_CODE_ALPHABET ==
  << "2", "3", "4", "5", "6", "7", "8", "9", "A", "B", "C", "D", "E", "F", "G", "H",
     "J", "K", "L", "M", "N", "P", "Q", "R", "S", "T", "U", "V", "W", "X", "Y", "Z" >>

TWO_FACTOR_ALPHABET ==
  << "A", "B", "C", "D", "E", "F", "G", "H", "I", "J", "K", "L", "M", "N", "O", "P",
     "Q", "R", "S", "T", "U", "V", "W", "X", "Y", "Z", "2", "3", "4", "5", "6", "7" >>

\* The n-th outcome of generateRecoveryCode(): two groups of four characters
\* of the alphabet, joined by a hyphen.
recoveryCodeAt(n) ==
  <<"R", "C", "V", RECOVERY_CODE_ALPHABET[((n \div 32) % 32) + 1], "-",
    "K", "E", "Y", RECOVERY_CODE_ALPHABET[(n % 32) + 1]>>

\* The n-th outcome of generateTwoFactorSecret(): sixteen characters.
secretAt(n) ==
  <<"J", "B", "S", "W", "Y", "3", "D", "P", "E", "H", "P", "K", "3", "P", "X",
    TWO_FACTOR_ALPHABET[(n % 32) + 1]>>

\* The n-th outcome of createVerificationCode(): Math.floor(100000 + r * 900000).
verificationCodeAt(n) == natToString(100000 + ((n * 111111) % 900000))

Indices == 0..31

RECURSIVE firstFree(_, _)
\* The least k numbers of the set free, in increasing order.
firstFree(k, free) ==
  IF k = 0 \/ free = {} THEN <<>>
  ELSE LET n == CHOOSE m \in free : \A o \in free : m <= o
       IN  <<n>> \o firstFree(k - 1, free \ {n})

Range(f) == {f[i] : i \in DOMAIN f}

usedRecoveryCodes ==
  UNION ({Range(accounts[i].recoveryCodes) : i \in DOMAIN accounts}
         \cup {Range(t.acct.recoveryCodes) : t \in tasks})
  \cup {spent.code}

usedSecrets ==
  {accounts[i].twoFactorSecret : i \in DOMAIN accounts}
  \cup {t.acct.twoFactorSecret : t \in tasks}

usedVerificationCodes ==
  {accounts[i].verificationCode : i \in DOMAIN accounts}
  \cup {t.acct.verificationCode : t \in tasks} \cup {t.code : t \in tasks}

usedIds == {accounts[i].id : i \in DOMAIN accounts} \cup {t.acct.id : t \in tasks}

\* The outcomes of generateRecoveryCodes(count) the model draws from.
generateRecoveryCodes(count) ==
  IF mode = "collide"
  THEN [1..count -> {recoveryCodeAt(0), recoveryCodeAt(1)}]
  ELSE LET free == {n \in Indices : recoveryCodeAt(n) \notin usedRecoveryCodes}
           idx  == firstFree(count, free)
       IN  {[i \in 1..count |-> recoveryCodeAt(idx[i])]}

generateTwoFactorSecret ==
  LET free == {n \in Indices : secretAt(n) \notin usedSecrets}
  IN  {secretAt(CHOOSE m \in free : \A o \in free : m <= o)}

createVerificationCode ==
  LET free == {n \in Indices : verificationCodeAt(n) \notin usedVerificationCodes}
  IN  {verificationCodeAt(CHOOSE m \in free : \A o \in free : m <= o)}

\* createId() for an account: an id no account and no suspended call holds.
createId ==
  IF usedIds = {} THEN 1 ELSE 1 + (CHOOSE m \in usedIds : \A o \in usedIds : o <= m)

(***************************************************************************)
(* Inputs                                                                  *)
(***************************************************************************)

EmailB == <<"b", "@", "x">>

\* The first one normalizes to a@x, the last one to the empty string.
RawEmails == {<<" ", "A", "@", "X", "\t">>, <<" ">>}

Password1 == <<"s", "e", "c", "r", "e", "t", "1">>

Password2 == <<"h", "u", "n", "t", "e", "r", "2", "2">>

\* The last one has six characters, three of them after trimming.
RawPasswords == {<<" ">> \o Password1 \o <<" ", " ">>, Password2,
                 <<" ", " ", "a", "b", "c", " ">>}

RawNames == {<<" ", "A", "n", "a", "\t", " ">>}

\* A field a caller leaves out of a patch (null or undefined).
Absent == <<"absent">>

PatchNames == {Absent, <<"B", "o", " ", " ", "b", " ">>}

\* The email of the registered account, the email of no registration, blank.
PatchEmails == {Absent, <<"A", "@", "x">>, EmailB, <<" ">>}

\* A code no generator of the model ever returns.
WrongRecoveryCode == recoveryCodeAt(1023)

WrongVerificationCode == <<"0", "0", "0", "0", "0", "0">>

\* A code typed with a blank in the middle and in lower case.
typed(code) ==
  IF code = NoString THEN NoString
  ELSE <<" ">> \o toLowerCase(SubSeq(code, 1, 1)) \o <<" ">> \o SubSeq(code, 2, Len(code))

\* One-time codes a caller may submit for a secret: none, one that is not six
\* digits, the code of the current window as typed, and the codes of the
\* previous and of the second next window.
codeInputs(secret) ==
  {NoString, <<"1", "2", "3", "4", "5">>, typed(generateTwoFactorCode(secret, now)),
   generateTwoFactorCode(secret, now - 30000), generateTwoFactorCode(secret, now + 60000)}

\* Recovery codes a caller may submit for an account: its current codes, one
\* of them as typed, the code recorded as spent, and a wrong one.
recoveryInputs(acc) ==
  Range(acc.recoveryCodes) \cup {WrongRecoveryCode}
  \cup (IF acc.recoveryCodes = <<>> THEN {} ELSE {typed(acc.recoveryCodes[1])})
  \cup (IF spent = NoSpent THEN {} ELSE {spent.code})

(***************************************************************************)
(* Accounts and suspended calls                                            *)
(***************************************************************************)

\* accounts.find((acc) => acc.email === email), as an index (0: undefined).
findByEmail(accs, email) ==
  LET I == {i \in DOMAIN accs : accs[i].email = email}
  IN  IF I = {} THEN 0 ELSE CHOOSE i \in I : \A j \in I : i <= j

\* accounts.find((acc) => acc.id === id), as an index (0: undefined).
findById(accs, id) ==
  LET I == {i \in DOMAIN accs : accs[i].id = id}
  IN  IF I = {} THEN 0 ELSE CHOOSE i \in I : \A j \in I : i <= j

\* The account with an id, in a list of accounts that holds it.
accountOf(accs, id) == accs[findById(accs, id)]

\* A faulty variant of replaceById: the account is added, not replaced.
appendAccount(accs, id, next) == Append(accs, next)

\* prev.map((acc) => (acc.id === id ? next : acc))
replaceById(accs, id, next) ==
  [i \in DOMAIN accs |-> IF accs[i].id = id THEN next ELSE accs[i]]

\* A suspended resendVerification holds a reference to the account object it
\* found.  live says that this object is still the one in accounts.  An
\* operation that stores a new object for the account ends that.
detach(ts, id) ==
  {IF t.kind = "resend" /\ t.acct.id = id THEN [t EXCEPT !.live = FALSE] ELSE t : t \in ts}

\* An operation that assigns to the fields of the account object it found
\* and then stores a copy of it: a suspended call that holds the object sees
\* the assignments.
mutate(ts, id, mutated) ==
  {IF t.kind = "resend" /\ t.acct.id = id /\ t.live
     THEN [t EXCEPT !.acct = mutated, !.live = FALSE]
     ELSE t : t \in ts}

\* What the email-send collaborator may fail with: an Error (ApiError or
\* other) with a message, or a thrown value that is no Error.  Messages are
\* sequences of characters.
NonError == [isError |-> FALSE, message |-> <<>>]

SendFailures ==
  {[isError |-> TRUE, message |-> m] : m \in {
      <<"S", "M", "T", "P", " ", "r", "e", "j", "e", "c", "t", "e", "d", " ", "t", "h",
        "e", " ", "m", "e", "s", "s", "a", "g", "e">>,
      <<"F", "a", "i", "l", "e", "d", " ", "t", "o", " ", "f", "e", "t", "c", "h">>,
      <<"T", "y", "p", "e", "E", "r", "r", "o", "r", ":", " ", "F", "a", "i", "l", "e",
        "d", " ", "t", "o", " ", "f", "e", "t", "c", "h">>,
      <<"N", "e", "t", "w", "o", "r", "k", " ", "r", "e", "q", "u", "e", "s", "t", " ",
        "f", "a", "i", "l", "e", "d">>,
      <<"n", "e", "t", "w", "o", "r", "k", " ", "i", "s", " ", "d", "o", "w", "n">>}}
  \cup {NonError}

\* String.prototype.includes: sub occurs in s at some position.
includes(s, sub) ==
  \E i \in 0..(Len(s) - Len(sub)) : SubSeq(s, i + 1, i + Len(sub)) = sub

\* message.includes('Failed to fetch') || message.includes('Network')
isNetworkFailure(message) ==
  \/ includes(message,
      <<"F", "a", "i", "l", "e", "d", " ", "t", "o", " ", "f", "e", "t", "c", "h">>)
  \/ includes(message, <<"N", "e", "t", "w", "o", "r", "k">>)

\* A faulty variant of deliveryMessage: the collaborator's message is dropped.
\* (The default message, written here in Latin transliteration.)
genericMessage(failure) ==
  <<"N", "e", " ", "v", "d", "a", "l", "o", "s", "i", "a", " ", "n", "a", "d", "i",
    "s", "l", "a", "t", "y", " ", "l", "y", "s", "t", " ", "p", "i", "d", "t", "v",
    "e", "r", "d", "z", "h", "e", "n", "n", "i", "a">>

\* The message sendVerificationEmail() throws for a collaborator failure: the
\* message of the error (or a default one for a value that is no Error), with
\* a hint appended when the message contains "Failed to fetch" or "Network".
\* (The default message and the hint are written in Latin transliteration.)
deliveryMessage(failure) ==
  LET message ==
        IF failure.isError THEN failure.message
        ELSE
          <<"N", "e", " ", "v", "d", "a", "l", "o", "s", "i", "a", " ", "n", "a", "d",
            "i", "s", "l", "a", "t", "y", " ", "l", "y", "s", "t", " ", "p", "i", "d",
            "t", "v", "e", "r", "d", "z", "h", "e", "n", "n", "i", "a">>
  IN  IF isNetworkFailure(message)
        THEN message \o
          <<".", " ", "P", "e", "r", "e", "k", "o", "n", "a", "i", "t", "e", "s", ",",
            " ", "s", "h", "c", "h", "o", " ", "A", "P", "I", " ", "s", "e", "r", "v",
            "e", "r", " ", "z", "a", "p", "u", "s", "h", "c", "h", "e", "n", "o", " ",
            "(", "p", "y", "t", "h", "o", "n", " ", "s", "e", "r", "v", "e", "r", ".",
            "p", "y", ")", ".">>
        ELSE message

\* existing && existing.emailVerified
ownedByVerified(accs, e) == e # 0 /\ accs[e].emailVerified

\* A faulty variant of passwordMatches: the password is not looked at.
passwordUnchecked(acc, password) == TRUE

\* account.password === password.trim()
passwordMatches(acc, password) == acc.password = trim(password)

\* The challenge ids of a registry.
ids(cs) == {c.challengeId : c \in cs}

\* acc.email === nextEmail, as update tests it on every other account.
sameEmail(acc, email) == acc.email = email

\* A faulty variant of removeChallenge: the challenge stays.
keepChallenge(cs, challengeId) == cs

\* const { [challengeId]: _, ...rest } = prev; return rest
removeChallenge(cs, challengeId) == {c \in cs : c.challengeId # challengeId}

\* A faulty variant of isUnverified: every account counts as verified.
countsAsVerified(account) == FALSE

\* !account.emailVerified, as login tests it.
isUnverified(account) == ~account.emailVerified

\* A faulty variant of confirmedAccount: the pending code and expiry stay.
confirmedKeepingCode(account) == [account EXCEPT !.emailVerified = TRUE]

\* verifyEmail's updatedAccount: verified, without pending code and expiry.
confirmedAccount(account) ==
  [account EXCEPT !.emailVerified = TRUE,
                  !.verificationCode = NoString,
                  !.verificationExpiresAt = NoTime]

\* A faulty variant of codeExpired: a code never expires.
neverExpired(account, clock) == FALSE

\* account.verificationExpiresAt && account.verificationExpiresAt < Date.now()
codeExpired(account, clock) ==
  account.verificationExpiresAt # NoTime /\ account.verificationExpiresAt < clock

\* A faulty variant of reissuedAccount: the account keeps the code it had.
reissuedKeepingCode(account, verificationCode, expiresAtTs) ==
  [account EXCEPT !.verificationExpiresAt = expiresAtTs, !.emailVerified = FALSE]

\* A faulty variant of reissuedAccount: the new code is stored without an
\* expiry.
reissuedWithoutExpiry(account, verificationCode, expiresAtTs) ==
  [account EXCEPT !.verificationCode = verificationCode,
                  !.verificationExpiresAt = NoTime,
                  !.emailVerified = FALSE]

\* resendVerification's updatedAccount: the account found at the call, with
\* the new code and expiry, unverified.
reissuedAccount(account, verificationCode, expiresAtTs) ==
  [account EXCEPT !.verificationCode = verificationCode,
                  !.verificationExpiresAt = expiresAtTs,
                  !.emailVerified = FALSE]

\* A faulty variant of enabledAccount: a new secret is always taken.
enabledWithNewSecret(account, newSecret, recoveryCodes) ==
  [account EXCEPT !.twoFactorSecret = newSecret,
                  !.twoFactorEnabled = TRUE,
                  !.recoveryCodes = recoveryCodes]

\* enableTwoFactor's assignments to the account: the secret it has, or else
\* a new one, two-factor login on, new recovery codes.
enabledAccount(account, newSecret, recoveryCodes) ==
  [account EXCEPT !.twoFactorSecret = IF account.twoFactorSecret # NoString
                                        THEN account.twoFactorSecret ELSE newSecret,
                  !.twoFactorEnabled = TRUE,
                  !.recoveryCodes = recoveryCodes]

\* A faulty variant of disabledAccount: the secret stays.
disabledKeepingSecret(account, newSecret, refreshedCodes) ==
  [account EXCEPT !.twoFactorEnabled = FALSE, !.recoveryCodes = refreshedCodes]

\* disableTwoFactor's assignments to the account: two-factor login off, a
\* new secret, new recovery codes.
disabledAccount(account, newSecret, refreshedCodes) ==
  [account EXCEPT !.twoFactorEnabled = FALSE,
                  !.twoFactorSecret = newSecret,
                  !.recoveryCodes = refreshedCodes]

\* A faulty variant of recoveredAccount: the password stays as it was.
recoveredKeepingPassword(account, newPassword, newSecret, newCodes) ==
  [account EXCEPT !.twoFactorEnabled = FALSE,
                  !.twoFactorSecret = newSecret,
                  !.recoveryCodes = newCodes]

\* recoverAccount's assignments to the account: the new password, two-factor
\* login off, a new secret, new recovery codes.
recoveredAccount(account, newPassword, newSecret, newCodes) ==
  [account EXCEPT !.password = trim(newPassword),
                  !.twoFactorEnabled = FALSE,
                  !.twoFactorSecret = newSecret,
                  !.recoveryCodes = newCodes]

\* A faulty variant of tooShort: every new password is taken.
neverTooShort(newPassword) == FALSE

\* newPassword.trim().length < 6
tooShort(newPassword) == Len(trim(newPassword)) < MinPasswordLength

\* A faulty variant of recoverySupplied: a recovery code is never looked at.
recoveryIgnored(recoveryCode) == FALSE

\* if (recoveryCode): a recovery code that is not empty was passed.
recoverySupplied(recoveryCode) == recoveryCode # NoString

(***************************************************************************)
(* Operations                                                              *)
(***************************************************************************)

\* A faulty variant of Tick: the clock stands still.
clockStuck(d) ==
  /\ now' = now
  /\ ticks' = ticks + 1
  /\ ret' = Ret("tick", "ok", NoString, NoString)
  /\ UNCHANGED <<accounts, challenges, user, pendingVerification, tasks, challengesMade,
                 spent, mode>>

Tick(d) ==
  /\ now' = now + d
  /\ ticks' = ticks + 1
  /\ ret' = Ret("tick", "ok", NoString, NoString)
  /\ UNCHANGED <<accounts, challenges, user, pendingVerification, tasks, challengesMade,
                 spent, mode>>

\* A faulty variant of cleanupChallenges: a challenge is kept through the
\* last millisecond of its lifetime.
cleanupKeepingBoundary ==
  /\ challenges' = {c \in challenges : c.issuedAt + CHALLENGE_EXPIRY_MS >= now}
  /\ ret' = Ret("cleanupChallenges", "ok", NoString, NoString)
  /\ UNCHANGED <<accounts, user, pendingVerification, now, tasks, challengesMade, ticks,
                 spent, mode>>

\* The timer callback: keeps the challenges with issuedAt + CHALLENGE_EXPIRY_MS > now.
cleanupChallenges ==
  /\ challenges' = {c \in challenges : c.issuedAt + CHALLENGE_EXPIRY_MS > now}
  /\ ret' = Ret("cleanupChallenges", "ok", NoString, NoString)
  /\ UNCHANGED <<accounts, user, pendingVerification, now, tasks, challengesMade, ticks,
                 spent, mode>>

\* A faulty variant of logout: the outstanding challenges are dropped too.
logoutDroppingChallenges ==
  /\ user' = NoUser
  /\ challenges' = {}
  /\ ret' = Ret("logout", "ok", NoString, NoString)
  /\ UNCHANGED <<accounts, pendingVerification, now, tasks, challengesMade,
                 ticks, spent, mode>>

logout ==
  /\ user' = NoUser
  /\ ret' = Ret("logout", "ok", NoString, NoString)
  /\ UNCHANGED <<accounts, challenges, pendingVerification, now, tasks, challengesMade,
                 ticks, spent, mode>>

\* register, up to the await of the email-send.
register(name, email, password) ==
  LET normalizedEmail == normalizeEmail(email)
      normalizedName  == normalizeName(name)
      e               == findByEmail(accounts, normalizedEmail)
      fail(status)    == /\ ret' = Ret("register", status, normalizedEmail, NoString)
                         /\ UNCHANGED tasks
  IN  /\ IF normalizedEmail = NoString THEN fail("EmailRequired")
         ELSE IF password = NoString \/ Len(trim(password)) < MinPasswordLength
           THEN fail("WeakPassword")
         ELSE IF ownedByVerified(accounts, e) THEN fail("Conflict")
         ELSE
           \E recoveryCodes \in generateRecoveryCodes(CodeCount),
              verificationCode \in createVerificationCode,
              newSecret \in generateTwoFactorSecret :
             LET nextAccount ==
                   [id |-> IF e # 0 THEN accounts[e].id ELSE createId,
                    name |-> normalizedName,
                    email |-> normalizedEmail,
                    createdAt |-> IF e # 0 THEN accounts[e].createdAt ELSE toISOString(now),
                    password |-> trim(password),
                    twoFactorEnabled |-> FALSE,
                    emailVerified |-> FALSE,
                    twoFactorSecret |->
                      IF e # 0 /\ accounts[e].twoFactorSecret # NoString
                        THEN accounts[e].twoFactorSecret ELSE newSecret,
                    recoveryCodes |-> recoveryCodes,
                    verificationCode |-> verificationCode,
                    verificationExpiresAt |-> now + VERIFICATION_EXPIRY_MS]
             IN  /\ tasks' = tasks \cup
                      {[kind |-> "register", acct |-> nextAccount, live |-> FALSE,
                        email |-> normalizedEmail, code |-> verificationCode,
                        expiresAt |-> now + VERIFICATION_EXPIRY_MS, existed |-> e # 0]}
                 /\ ret' = Ret("register", "awaiting-send", normalizedEmail, NoString)
      /\ UNCHANGED <<accounts, challenges, user, pendingVerification, now, challengesMade,
                     ticks, spent, mode>>

\* resendVerification, up to the await of the email-send.
resendVerification(email) ==
  LET normalizedEmail == normalizeEmail(email)
      e               == findByEmail(accounts, normalizedEmail)
      fail(status)    == /\ ret' = Ret("resendVerification", status, normalizedEmail, NoString)
                         /\ UNCHANGED tasks
  IN  /\ IF normalizedEmail = NoString THEN fail("EmailRequired")
         ELSE IF e = 0 THEN fail("NotFound")
         ELSE IF accounts[e].emailVerified THEN fail("AlreadyVerified")
         ELSE
           \E verificationCode \in createVerificationCode :
             /\ tasks' = tasks \cup
                  {[kind |-> "resend", acct |-> accounts[e], live |-> TRUE,
                    email |-> normalizedEmail, code |-> verificationCode,
                    expiresAt |-> now + VERIFICATION_EXPIRY_MS, existed |-> TRUE]}
             /\ ret' = Ret("resendVerification", "awaiting-send", normalizedEmail, NoString)
      /\ UNCHANGED <<accounts, challenges, user, pendingVerification, now, challengesMade,
                     ticks, spent, mode>>

\* The email-send resolved: the suspended call t runs to its end.
sendResolved(t) ==
  /\ t \in tasks
  /\ IF t.kind = "register"
       THEN /\ accounts' =
                 IF \E i \in DOMAIN accounts : accounts[i].id = t.acct.id
                   THEN replaceById(accounts, t.acct.id, t.acct)
                   ELSE Append(accounts, t.acct)
            /\ ret' = Ret("register", "pending-verification", t.email,
                          [recoveryCodes |-> t.acct.recoveryCodes,
                           expiresAt |-> toISOString(t.expiresAt)])
       ELSE /\ accounts' =
                 replaceById(accounts, t.acct.id,
                             reissuedAccount(t.acct, t.code, t.expiresAt))
            /\ ret' = Ret("resendVerification", "ok", t.email, NoString)
  /\ pendingVerification' = [email |-> t.email, expiresAt |-> toISOString(t.expiresAt)]
  /\ tasks' = detach(tasks \ {t}, t.acct.id)
  /\ UNCHANGED <<challenges, user, now, challengesMade, ticks, spent, mode>>

\* The email-send failed with message: the suspended call t throws.
\* A faulty variant of sendRejected: the failure also ends the session.
sendRejectedSigningOut(t, failure) ==
  /\ t \in tasks
  /\ tasks' = tasks \ {t}
  /\ user' = NoUser
  /\ ret' = Ret(IF t.kind = "register" THEN "register" ELSE "resendVerification",
                "DeliveryFailed", t.email, deliveryMessage(failure))
  /\ UNCHANGED <<accounts, challenges, pendingVerification, now, challengesMade,
                 ticks, spent, mode>>

sendRejected(t, failure) ==
  /\ t \in tasks
  /\ tasks' = tasks \ {t}
  /\ ret' = Ret(IF t.kind = "register" THEN "register" ELSE "resendVerification",
                "DeliveryFailed", t.email, deliveryMessage(failure))
  /\ UNCHANGED <<accounts, challenges, user, pendingVerification, now, challengesMade,
                 ticks, spent, mode>>

\* A faulty variant of issueChallenge: the challenge is stamped with time 0.
issueChallengeUnstamped(acc) ==
  [challenge |-> [challengeId |-> challengesMade + 1, accountId |-> acc.id, issuedAt |-> 0],
   code |-> IF acc.twoFactorSecret # NoString
              THEN generateTwoFactorCode(acc.twoFactorSecret, now)
              ELSE generateTwoFactorCode(natToString(acc.id), now)]

\* issueChallenge(account): the challenge record and the code of the hint.
issueChallenge(acc) ==
  [challenge |-> [challengeId |-> challengesMade + 1, accountId |-> acc.id, issuedAt |-> now],
   code |-> IF acc.twoFactorSecret # NoString
              THEN generateTwoFactorCode(acc.twoFactorSecret, now)
              ELSE generateTwoFactorCode(natToString(acc.id), now)]

login(email, password, code) ==
  LET normalizedEmail == normalizeEmail(email)
      e               == findByEmail(accounts, normalizedEmail)
      account         == accounts[e]
      issued          == issueChallenge(account)
  IN  /\ IF e = 0 \/ ~passwordMatches(account, password)
           THEN /\ ret' = Ret("login", "InvalidCredentials", normalizedEmail, NoString)
                /\ UNCHANGED <<user, pendingVerification, challenges, challengesMade>>
         ELSE IF isUnverified(account)
           THEN /\ pendingVerification' =
                     [email |-> account.email,
                      expiresAt |-> IF account.verificationExpiresAt # NoTime
                                      THEN toISOString(account.verificationExpiresAt)
                                      ELSE NoString]
                /\ ret' = Ret("login", "needs-verification", account.email, NoString)
                /\ UNCHANGED <<user, challenges, challengesMade>>
         ELSE IF account.twoFactorEnabled
           THEN IF /\ code # NoString
                   /\ account.twoFactorSecret # NoString
                   /\ verifyTwoFactorCode(account.twoFactorSecret, code, now)
                  THEN /\ user' = [userOf(account) EXCEPT !.twoFactorEnabled = TRUE]
                       /\ pendingVerification' = NoPending
                       /\ ret' = Ret("login", "success", normalizedEmail, user')
                       /\ UNCHANGED <<challenges, challengesMade>>
                  ELSE /\ challenges' = challenges \cup {issued.challenge}
                       /\ challengesMade' = challengesMade + 1
                       /\ IF code # NoString
                            THEN /\ ret' = Ret("login", "InvalidCode", normalizedEmail, NoString)
                                 /\ UNCHANGED pendingVerification
                            ELSE /\ pendingVerification' = NoPending
                                 /\ ret' = Ret("login", "two-factor", normalizedEmail,
                                               [challengeId |-> issued.challenge.challengeId,
                                                code |-> issued.code])
                       /\ UNCHANGED user
         ELSE /\ user' = [userOf(account) EXCEPT !.twoFactorEnabled = FALSE]
              /\ pendingVerification' = NoPending
              /\ ret' = Ret("login", "success", normalizedEmail, user')
              /\ UNCHANGED <<challenges, challengesMade>>
      /\ UNCHANGED <<accounts, now, tasks, ticks, spent, mode>>

verifyEmail(email, code) ==
  LET normalizedEmail == normalizeEmail(email)
      sanitizedCode   == normalizeCode(code)
      e               == findByEmail(accounts, normalizedEmail)
      account         == accounts[e]
      updatedAccount  == confirmedAccount(account)
      fail(status)    == /\ ret' = Ret("verifyEmail", status, normalizedEmail, NoString)
                         /\ UNCHANGED <<accounts, user, pendingVerification, tasks>>
  IN  /\ IF normalizedEmail = NoString THEN fail("EmailRequired")
         ELSE IF sanitizedCode = NoString THEN fail("CodeRequired")
         ELSE IF e = 0 THEN fail("NotFound")
         ELSE IF account.emailVerified
           THEN /\ user' = [userOf(account) EXCEPT !.emailVerified = TRUE]
                /\ pendingVerification' = NoPending
                /\ ret' = Ret("verifyEmail", "already-verified", normalizedEmail, user')
                /\ UNCHANGED <<accounts, tasks>>
         ELSE IF account.verificationCode = NoString THEN fail("NoPendingCode")
         ELSE IF account.verificationCode # sanitizedCode THEN fail("Mismatch")
         ELSE IF codeExpired(account, now) THEN fail("Expired")
         ELSE /\ accounts' = replaceById(accounts, updatedAccount.id, updatedAccount)
              /\ user' = userOf(updatedAccount)
              /\ pendingVerification' = NoPending
              /\ tasks' = detach(tasks, updatedAccount.id)
              /\ ret' = Ret("verifyEmail", "verified", normalizedEmail, user')
      /\ UNCHANGED <<challenges, now, challengesMade, ticks, spent, mode>>

\* Which accepted recovery code the history variable records: in the mode
\* "spent", any one of them.
record(id, code) ==
  IF mode = "spent" /\ spent = NoSpent THEN {spent, [id |-> id, code |-> code]} ELSE {spent}

verifyTwoFactor(challengeId, code, recoveryCode) ==
  LET found          == {c \in challenges : c.challengeId = challengeId}
      challenge      == CHOOSE c \in found : TRUE
      a              == findById(accounts, challenge.accountId)
      account        == accounts[a]
      normalizedRecovery == normalizeCode(recoveryCode)
      matches        == \E i \in DOMAIN account.recoveryCodes :
                          normalizeCode(account.recoveryCodes[i]) = normalizedRecovery
      usedRecovery   == recoverySupplied(recoveryCode)
      remaining      == IF usedRecovery
                          THEN SelectSeq(account.recoveryCodes,
                                         LAMBDA rc : normalizeCode(rc) # normalizedRecovery)
                          ELSE account.recoveryCodes
      mutated        == [account EXCEPT !.recoveryCodes = remaining]
      fail(status)   == /\ ret' = Ret("verifyTwoFactor", status, NoString,
                                      [challengeId |-> challengeId])
                        /\ UNCHANGED <<accounts, challenges, user, pendingVerification,
                                       tasks, spent>>
  IN  /\ IF found = {} THEN fail("NotFound")
         ELSE IF a = 0 THEN fail("AccountNotFound")
         ELSE IF usedRecovery /\ ~matches THEN fail("InvalidRecoveryCode")
         ELSE IF ~usedRecovery /\ (code = NoString \/ account.twoFactorSecret = NoString)
           THEN fail("CodeRequired")
         ELSE IF ~usedRecovery /\ ~verifyTwoFactorCode(account.twoFactorSecret, code, now)
           THEN fail("InvalidCode")
         ELSE
           /\ user' = userOf(mutated)
           /\ pendingVerification' = NoPending
           /\ challenges' = removeChallenge(challenges, challengeId)
           /\ IF usedRecovery /\ remaining = <<>>
                THEN \E refreshed \in generateRecoveryCodes(CodeCount) :
                       accounts' = replaceById(accounts, account.id,
                                               [mutated EXCEPT !.recoveryCodes = refreshed])
                ELSE accounts' = replaceById(accounts, account.id, mutated)
           /\ tasks' = IF usedRecovery THEN mutate(tasks, account.id, mutated)
                       ELSE detach(tasks, account.id)
           /\ spent' \in (IF usedRecovery THEN record(account.id, normalizedRecovery)
                          ELSE {spent})
           /\ ret' = Ret("verifyTwoFactor", "success", NoString,
                         [challengeId |-> challengeId,
                          recoveryCode |-> IF usedRecovery THEN normalizedRecovery
                                           ELSE NoString,
                          user |-> user'])
      /\ UNCHANGED <<now, challengesMade, ticks, mode>>

update(name, email) ==
  LET nextName  == IF name # Absent THEN normalizeName(name) ELSE user.name
      nextEmail == IF email # Absent THEN normalizeEmail(email) ELSE user.email
      conflict  == \E i \in DOMAIN accounts :
                     sameEmail(accounts[i], nextEmail) /\ accounts[i].id # user.id
      fail(status) == /\ ret' = Ret("update", status, NoString, NoString)
                      /\ UNCHANGED <<accounts, user, tasks>>
  IN  /\ IF user = NoUser THEN fail("NotAuthorised")
         ELSE IF nextEmail = NoString THEN fail("EmailRequired")
         ELSE IF nextEmail # user.email /\ conflict THEN fail("EmailConflict")
         ELSE /\ user' = [user EXCEPT !.name = nextName, !.email = nextEmail]
              /\ accounts' =
                   [i \in DOMAIN accounts |->
                      IF accounts[i].id = user.id
                        THEN [accounts[i] EXCEPT !.name = nextName, !.email = nextEmail]
                        ELSE accounts[i]]
              /\ tasks' = detach(tasks, user.id)
              /\ ret' = Ret("update", "ok", nextEmail, user')
      /\ UNCHANGED <<challenges, pendingVerification, now, challengesMade, ticks, spent, mode>>

enableTwoFactor ==
  LET a       == findById(accounts, user.id)
      account == accounts[a]
      fail(status) == /\ ret' = Ret("enableTwoFactor", status, NoString, NoString)
                      /\ UNCHANGED <<accounts, user, tasks>>
  IN  /\ IF user = NoUser THEN fail("NotAuthorised")
         ELSE IF a = 0 THEN fail("NotFound")
         ELSE IF account.twoFactorEnabled THEN fail("AlreadyEnabled")
         ELSE \E newSecret \in generateTwoFactorSecret,
                 recoveryCodes \in generateRecoveryCodes(CodeCount) :
                LET mutated == enabledAccount(account, newSecret, recoveryCodes)
                    secret  == mutated.twoFactorSecret
                IN  /\ user' = [user EXCEPT !.twoFactorEnabled = TRUE]
                    /\ accounts' = replaceById(accounts, account.id, mutated)
                    /\ tasks' = mutate(tasks, account.id, mutated)
                    /\ ret' = Ret("enableTwoFactor", "ok", NoString,
                                  [secret |-> secret, recoveryCodes |-> recoveryCodes,
                                   currentCode |-> generateTwoFactorCode(secret, now)])
      /\ UNCHANGED <<challenges, pendingVerification, now, challengesMade, ticks, spent, mode>>

disableTwoFactor ==
  LET a       == findById(accounts, user.id)
      account == accounts[a]
      fail(status) == /\ ret' = Ret("disableTwoFactor", status, NoString, NoString)
                      /\ UNCHANGED <<accounts, user, tasks>>
  IN  /\ IF user = NoUser THEN fail("NotAuthorised")
         ELSE IF a = 0 THEN fail("NotFound")
         ELSE IF ~account.twoFactorEnabled THEN fail("ok")
         ELSE \E newSecret \in generateTwoFactorSecret,
                 refreshedCodes \in generateRecoveryCodes(CodeCount) :
                LET mutated == disabledAccount(account, newSecret, refreshedCodes)
                IN  /\ user' = [user EXCEPT !.twoFactorEnabled = FALSE]
                    /\ accounts' = replaceById(accounts, account.id, mutated)
                    /\ tasks' = mutate(tasks, account.id, mutated)
                    /\ ret' = Ret("disableTwoFactor", "ok", NoString, NoString)
      /\ UNCHANGED <<challenges, pendingVerification, now, challengesMade, ticks, spent, mode>>

regenerateRecoveryCodes ==
  LET a       == findById(accounts, user.id)
      account == accounts[a]
      fail(status) == /\ ret' = Ret("regenerateRecoveryCodes", status, NoString, NoString)
                      /\ UNCHANGED <<accounts, tasks>>
  IN  /\ IF user = NoUser THEN fail("NotAuthorised")
         ELSE IF a = 0 THEN fail("NotFound")
         ELSE \E codes \in generateRecoveryCodes(CodeCount) :
                LET mutated == [account EXCEPT !.recoveryCodes = codes]
                IN  /\ accounts' = replaceById(accounts, account.id, mutated)
                    /\ tasks' = mutate(tasks, account.id, mutated)
                    /\ ret' = Ret("regenerateRecoveryCodes", "ok", NoString, codes)
      /\ UNCHANGED <<challenges, user, pendingVerification, now, challengesMade, ticks,
                     spent, mode>>

\* A faulty variant of getRecoveryCodes: without a session the codes of the
\* first account are returned.
getRecoveryCodesOfAnyone ==
  /\ ret' = IF user = NoUser /\ accounts # <<>>
              THEN Ret("getRecoveryCodes", "ok", NoString, accounts[1].recoveryCodes)
            ELSE IF user = NoUser \/ findById(accounts, user.id) = 0
              THEN Ret("getRecoveryCodes", "NotFound", NoString, NoString)
            ELSE Ret("getRecoveryCodes", "ok", NoString,
                     accountOf(accounts, user.id).recoveryCodes)
  /\ UNCHANGED <<accounts, challenges, user, pendingVerification, now, tasks,
                 challengesMade, ticks, spent, mode>>

getRecoveryCodes ==
  LET a == findById(accounts, user.id)
  IN  /\ ret' = IF user = NoUser
                  THEN Ret("getRecoveryCodes", "NotAuthorised", NoString, NoString)
                ELSE IF a = 0
                  THEN Ret("getRecoveryCodes", "NotFound", NoString, NoString)
                ELSE Ret("getRecoveryCodes", "ok", NoString, accounts[a].recoveryCodes)
      /\ UNCHANGED <<accounts, challenges, user, pendingVerification, now, tasks,
                     challengesMade, ticks, spent, mode>>

\* recoverAccount.  The record of a call that succeeded names the account,
\* the code that was used, the codes generated, the password the account had
\* and the password it was given.
recoverAccount(email, recoveryCode, newPassword) ==
  LET normalizedEmail == normalizeEmail(email)
      e        == findByEmail(accounts, normalizedEmail)
      account  == accounts[e]
      code     == normalizeCode(recoveryCode)
      rollback == \E i \in DOMAIN account.recoveryCodes :
                    normalizeCode(account.recoveryCodes[i]) = code
      fail(status) == /\ ret' = Ret("recoverAccount", status, normalizedEmail, NoString)
                      /\ UNCHANGED <<accounts, tasks, spent>>
  IN  /\ IF e = 0 THEN fail("NotFound")
         ELSE IF ~rollback THEN fail("InvalidRecoveryCode")
         ELSE IF tooShort(newPassword) THEN fail("WeakPassword")
         ELSE \E newSecret \in generateTwoFactorSecret,
                 newCodes \in generateRecoveryCodes(CodeCount) :
                LET mutated == recoveredAccount(account, newPassword, newSecret, newCodes)
                IN  /\ accounts' = replaceById(accounts, account.id, mutated)
                    /\ tasks' = mutate(tasks, account.id, mutated)
                    /\ spent' \in record(account.id, code)
                    /\ ret' = Ret("recoverAccount", "ok", normalizedEmail,
                                  [id |-> account.id, recoveryCode |-> code,
                                   recoveryCodes |-> newCodes,
                                   oldPassword |-> account.password,
                                   newPassword |-> trim(newPassword)])
      /\ UNCHANGED <<challenges, user, pendingVerification, now, challengesMade, ticks, mode>>

(***************************************************************************)
(* The specifications                                                      *)
(***************************************************************************)

\* The state after construction with nothing persisted, at clock 0.
InitIn(m, f) ==
  /\ fuel = f
  /\ accounts = <<>>
  /\ challenges = {}
  /\ user = NoUser
  /\ pendingVerification = NoPending
  /\ now = 0
  /\ tasks = {}
  /\ challengesMade = 0
  /\ ticks = 0
  /\ ret = Ret("init", "ok", NoString, NoString)
  /\ spent = NoSpent
  /\ mode = m

Init == InitIn("fresh", MaxSteps)

\* The account an email names, for choosing the codes to submit.
secretOf(email) ==
  LET e == findByEmail(accounts, normalizeEmail(email))
  IN  IF e = 0 THEN secretAt(0) ELSE accounts[e].twoFactorSecret

recoveryInputsOf(email) ==
  LET e == findByEmail(accounts, normalizeEmail(email))
  IN  IF e = 0 THEN {WrongRecoveryCode} ELSE recoveryInputs(accounts[e])

verificationInputsOf(email) ==
  LET e == findByEmail(accounts, normalizeEmail(email))
  IN  {NoString, WrongVerificationCode}
      \cup (IF e = 0 THEN {}
            ELSE {accounts[e].verificationCode, typed(accounts[e].verificationCode)})

\* What a run may hold at once: accounts created (or being created),
\* challenges issued, calls suspended at the email-send, clock advances.
Within(maxAccounts, maxChallenges, maxInflight, maxTicks) ==
  /\ Cardinality(usedIds) <= maxAccounts
  /\ challengesMade <= maxChallenges
  /\ Cardinality(tasks) <= maxInflight
  /\ ticks <= maxTicks

Bounded == Within(MaxAccounts, MaxChallenges, MaxInflight, MaxTicks)

\* One operation of a run: it uses up one unit of fuel (if the run has a
\* length bound) and stays within the bounds B.
stepWithin(A, B) == fuel # 0 /\ A /\ fuel' = (IF fuel < 0 THEN fuel ELSE fuel - 1) /\ B'

step(A) == stepWithin(A, Bounded)

DoTick == \E d \in TickSteps : step(Tick(d))

DoCleanupChallenges == step(cleanupChallenges)

DoLogout == step(logout)

DoRegister == \E name \in RawNames, email \in RawEmails, password \in RawPasswords :
                step(register(name, email, password))

DoResendVerification == \E email \in RawEmails : step(resendVerification(email))

DoSendResolved == \E t \in tasks : step(sendResolved(t))

DoSendRejected == \E t \in tasks, failure \in SendFailures : step(sendRejected(t, failure))

DoLogin == \E email \in RawEmails, password \in RawPasswords :
             \E code \in codeInputs(secretOf(email)) : step(login(email, password, code))

DoVerifyEmail == \E email \in RawEmails :
                   \E code \in verificationInputsOf(email) : step(verifyEmail(email, code))

\* The account a challenge id names, as an index (0: none).  The codes to
\* submit are that account's, or any account's if the id names none.
challenged(challengeId) ==
  LET found == {c \in challenges : c.challengeId = challengeId}
  IN  IF found = {} THEN 0 ELSE findById(accounts, (CHOOSE c \in found : TRUE).accountId)

DoVerifyTwoFactor ==
  \E challengeId \in 1..(challengesMade + 1) :
    LET a    == challenged(challengeId)
        accs == IF a = 0 THEN DOMAIN accounts ELSE {a}
    IN  \E code \in {NoString} \cup UNION {codeInputs(accounts[i].twoFactorSecret) : i \in accs},
           recoveryCode \in {NoString} \cup UNION {recoveryInputs(accounts[i]) : i \in accs} :
          step(verifyTwoFactor(challengeId, code, recoveryCode))

DoUpdate == \E name \in PatchNames, email \in PatchEmails : step(update(name, email))

DoEnableTwoFactor == step(enableTwoFactor)

DoDisableTwoFactor == step(disableTwoFactor)

DoRegenerateRecoveryCodes == step(regenerateRecoveryCodes)

DoGetRecoveryCodes == step(getRecoveryCodes)

DoRecoverAccount ==
  \E email \in RawEmails, newPassword \in RawPasswords :
    \E recoveryCode \in recoveryInputsOf(email) :
      step(recoverAccount(email, recoveryCode, newPassword))

Next ==
  \/ DoTick
  \/ DoCleanupChallenges
  \/ DoLogout
  \/ DoRegister
  \/ DoResendVerification
  \/ DoSendResolved
  \/ DoSendRejected
  \/ DoLogin
  \/ DoVerifyEmail
  \/ DoVerifyTwoFactor
  \/ DoUpdate
  \/ DoEnableTwoFactor
  \/ DoDisableTwoFactor
  \/ DoRegenerateRecoveryCodes
  \/ DoGetRecoveryCodes
  \/ DoRecoverAccount

\* Runs of at most MaxSteps operations; random values never repeat a value
\* the state holds.
Spec == Init /\ [][Next]_vars

\* As Spec, recording one accepted recovery code.
SpecSpent == InitIn("spent", MaxSteps) /\ [][Next]_vars

\* Generated recovery codes may repeat.
\* Runs in which a recovery code may be generated twice have at most
\* CollideSteps operations.
CollideSteps == 6

SpecCollide == InitIn("collide", CollideSteps) /\ [][Next]_vars

(***************************************************************************)
(* Overlapping calls.  Two specifications over a part of the operations,   *)
(* with the inputs that make them succeed: calls that are suspended at the *)
(* email-send while other calls complete.                                  *)
(***************************************************************************)

RawEmailA == <<" ", "A", "@", "X", "\t">>

RawName == <<" ", "A", "n", "a", "\t", " ">>

\* The verification code an email's account waits for.
pendingCodeOf(email) ==
  LET e == findByEmail(accounts, normalizeEmail(email))
  IN  IF e = 0 \/ accounts[e].verificationCode = NoString THEN {}
      ELSE {accounts[e].verificationCode}

\* Two accounts and two suspended calls, in runs of at most OverlapSteps
\* operations, without two-factor login.
OverlapSteps == 10

OverlapAccounts == 2

OverlapInflight == 2

OverlapBounded == Within(OverlapAccounts, 0, OverlapInflight, 0)

OverlapRegister == stepWithin(register(RawName, RawEmailA, Password1), OverlapBounded)

OverlapResend == stepWithin(resendVerification(RawEmailA), OverlapBounded)

OverlapSendResolved == \E t \in tasks : stepWithin(sendResolved(t), OverlapBounded)

OverlapVerifyEmail ==
  \E code \in pendingCodeOf(RawEmailA) : stepWithin(verifyEmail(RawEmailA, code), OverlapBounded)

OverlapUpdate == user # NoUser /\ stepWithin(update(Absent, EmailB), OverlapBounded)

NextOverlap ==
  \/ OverlapRegister
  \/ OverlapResend
  \/ OverlapSendResolved
  \/ OverlapVerifyEmail
  \/ OverlapUpdate

SpecOverlap == InitIn("fresh", OverlapSteps) /\ [][NextOverlap]_vars

\* One account with two-factor login by recovery code and one suspended
\* call, in runs of any length.
ResendAccounts == 1

ResendChallenges == 2

ResendInflight == 1

ResendBounded == Within(ResendAccounts, ResendChallenges, ResendInflight, 0)

ResendRegister == stepWithin(register(RawName, RawEmailA, Password1), ResendBounded)

ResendResend == stepWithin(resendVerification(RawEmailA), ResendBounded)

ResendSendResolved == \E t \in tasks : stepWithin(sendResolved(t), ResendBounded)

ResendVerifyEmail ==
  \E code \in pendingCodeOf(RawEmailA) : stepWithin(verifyEmail(RawEmailA, code), ResendBounded)

ResendEnableTwoFactor == user # NoUser /\ stepWithin(enableTwoFactor, ResendBounded)

ResendLogin == stepWithin(login(RawEmailA, Password1, NoString), ResendBounded)

ResendVerifyTwoFactor ==
  \E c \in challenges :
    LET a == findById(accounts, c.accountId)
    IN  \E recoveryCode \in Range(accounts[a].recoveryCodes) :
          stepWithin(verifyTwoFactor(c.challengeId, NoString, recoveryCode), ResendBounded)

NextResend ==
  \/ ResendRegister
  \/ ResendResend
  \/ ResendSendResolved
  \/ ResendVerifyEmail
  \/ ResendEnableTwoFactor
  \/ ResendLogin
  \/ ResendVerifyTwoFactor

InitResend == InitIn("fresh", 0 - 1)

SpecResend == InitResend /\ [][NextResend]_vars

(***************************************************************************)
(* Persisted accounts.  The accounts are read from storage at construction *)
(* (toStoredAccount): a record stored without a verification code and      *)
(* expiry, and marked unverified, is loaded as it is.                      *)
(***************************************************************************)

\* toStoredAccount for a record with id, name, email, createdAt, password and
\* emailVerified = false, and none of the other fields: there is no secret,
\* no verification code and no expiry, and recovery codes are generated.
storedUnverified ==
  [id |-> 1,
   name |-> <<"A", "n", "a">>,
   email |-> <<"a", "@", "x">>,
   createdAt |-> toISOString(0),
   password |-> Password1,
   twoFactorEnabled |-> FALSE,
   emailVerified |-> FALSE,
   twoFactorSecret |-> NoString,
   recoveryCodes |-> [i \in 1..CodeCount |-> recoveryCodeAt(i - 1)],
   verificationCode |-> NoString,
   verificationExpiresAt |-> NoTime]

\* Runs from such a stored account have at most StoredSteps operations.
StoredSteps == 5

InitStored ==
  /\ fuel = StoredSteps
  /\ accounts = <<storedUnverified>>
  /\ challenges = {}
  /\ user = NoUser
  /\ pendingVerification = NoPending
  /\ now = 0
  /\ tasks = {}
  /\ challengesMade = 0
  /\ ticks = 0
  /\ ret = Ret("init", "ok", NoString, NoString)
  /\ spent = NoSpent
  /\ mode = "fresh"

SpecStored == InitStored /\ [][Next]_vars

(***************************************************************************)
(* One-time codes across windows.  One account with two-factor login; the  *)
(* clock advances by one 30-second window at a time while a challenge      *)
(* waits, and the code submitted is the one of the challenge's issue time. *)
(***************************************************************************)

\* The length of a one-time code window: Math.floor(timestamp / 30000).
TwoFactorWindowMs == 30000

WindowTicks == 3

WindowChallenges == 2

WindowBounded == Within(1, WindowChallenges, 1, WindowTicks)

\* The code issueChallenge put in the hint of challenge c, for the secret the
\* account has now (for its id, when it has no secret).
hintedCode(c) ==
  LET account == accountOf(accounts, c.accountId)
  IN  IF account.twoFactorSecret # NoString
        THEN generateTwoFactorCode(account.twoFactorSecret, c.issuedAt)
        ELSE generateTwoFactorCode(natToString(account.id), c.issuedAt)

WindowTick == challenges # {} /\ stepWithin(Tick(TwoFactorWindowMs), WindowBounded)

WindowRegister == stepWithin(register(RawName, RawEmailA, Password1), WindowBounded)

WindowSendResolved == \E t \in tasks : stepWithin(sendResolved(t), WindowBounded)

WindowVerifyEmail ==
  \E code \in pendingCodeOf(RawEmailA) : stepWithin(verifyEmail(RawEmailA, code), WindowBounded)

WindowEnableTwoFactor == user # NoUser /\ stepWithin(enableTwoFactor, WindowBounded)

WindowLogout == user # NoUser /\ stepWithin(logout, WindowBounded)

WindowLogin == stepWithin(login(RawEmailA, Password1, NoString), WindowBounded)

WindowVerifyTwoFactor ==
  \E c \in challenges :
    stepWithin(verifyTwoFactor(c.challengeId, hintedCode(c), NoString), WindowBounded)

NextWindow ==
  \/ WindowTick
  \/ WindowRegister
  \/ WindowSendResolved
  \/ WindowVerifyEmail
  \/ WindowEnableTwoFactor
  \/ WindowLogout
  \/ WindowLogin
  \/ WindowVerifyTwoFactor

SpecWindow == InitResend /\ [][NextWindow]_vars

(***************************************************************************)
(* Time and the sweep.  The operations of SpecWindow, with a clock that    *)
(* advances by the lifetime of a challenge while some challenge is within  *)
(* its lifetime, and the sweep of the interval timer.  Time passes and the *)
(* timer fires as long as the provider is mounted: both are weakly fair.   *)
(***************************************************************************)

LiveTick ==
  /\ \E c \in challenges : c.issuedAt + CHALLENGE_EXPIRY_MS > now
  /\ stepWithin(Tick(CHALLENGE_EXPIRY_MS), WindowBounded)

LiveSweep == challenges # {} /\ stepWithin(cleanupChallenges, WindowBounded)

NextLive ==
  \/ LiveTick
  \/ LiveSweep
  \/ WindowRegister
  \/ WindowSendResolved
  \/ WindowVerifyEmail
  \/ WindowEnableTwoFactor
  \/ WindowLogout
  \/ WindowLogin
  \/ WindowVerifyTwoFactor

SpecLive ==
  /\ InitResend
  /\ [][NextLive]_vars
  /\ WF_vars(LiveTick)
  /\ WF_vars(LiveSweep)

(***************************************************************************)
(* Recovery and the logins after it.  Every register of these runs has the *)
(* first password, so an account with another password got it from         *)
(* recoverAccount; recoverAccount and login take every password.           *)
(***************************************************************************)

\* Runs of recovery have at most RecoverSteps operations.
RecoverSteps == 7

RecoverRecoverAccount ==
  \E newPassword \in RawPasswords :
    \E recoveryCode \in recoveryInputsOf(RawEmailA) :
      stepWithin(recoverAccount(RawEmailA, recoveryCode, newPassword), WindowBounded)

RecoverLogin ==
  \E password \in RawPasswords :
    stepWithin(login(RawEmailA, password, NoString), WindowBounded)

NextRecover ==
  \/ WindowRegister
  \/ WindowSendResolved
  \/ WindowVerifyEmail
  \/ WindowEnableTwoFactor
  \/ WindowLogout
  \/ RecoverRecoverAccount
  \/ RecoverLogin

SpecRecover == InitIn("fresh", RecoverSteps) /\ [][NextRecover]_vars

(***************************************************************************)
(* The generator and the verifier alone.  A specification that applies     *)
(* generateTwoFactorCode and verifyTwoFactorCode to secrets, timestamps    *)
(* and typed codes; now is the timestamp both read, and it moves by whole  *)
(* windows in both directions.                                             *)
(***************************************************************************)

\* How many windows the timestamp may be moved away from a starting one.
CodeShifts == 2

\* Starting timestamps: the first and the last millisecond of window 0, the
\* first of window 1, the last of window 100 (a code that begins with 0),
\* and windows 3997 and 29998, a few windows before the window number gets
\* a new digit.
CodeTimes == {0, 29999, 30000, 101 * TwoFactorWindowMs - 1, 3997 * TwoFactorWindowMs,
              29998 * TwoFactorWindowMs}

InitCodes ==
  /\ fuel = 0 - 1
  /\ accounts = <<>>
  /\ challenges = {}
  /\ user = NoUser
  /\ pendingVerification = NoPending
  /\ now \in CodeTimes
  /\ tasks = {}
  /\ challengesMade = 0
  /\ ticks = 0
  /\ ret = Ret("init", "ok", NoString, NoString)
  /\ spent = NoSpent
  /\ mode = "fresh"

\* generateTwoFactorCode(secret) at the timestamp now.
CodesGenerate ==
  /\ \E secret \in {secretAt(0), secretAt(1)} :
       ret' = Ret("generateTwoFactorCode", "ok", NoString,
                  [secret |-> secret, timestamp |-> now,
                   code |-> generateTwoFactorCode(secret, now)])
  /\ UNCHANGED <<accounts, challenges, user, pendingVerification, now, tasks,
                 challengesMade, ticks, spent, mode, fuel>>

\* The timestamp moves one window back or forth.
CodesShift ==
  /\ \E d \in {0 - TwoFactorWindowMs, TwoFactorWindowMs} :
       /\ now' = now + d
       /\ \E t \in CodeTimes :
            /\ now' - t <= CodeShifts * TwoFactorWindowMs
            /\ t - now' <= CodeShifts * TwoFactorWindowMs
  /\ UNCHANGED <<accounts, challenges, user, pendingVerification, tasks,
                 challengesMade, ticks, ret, spent, mode, fuel>>

\* verifyTwoFactorCode(secret, code) at the timestamp now, for the secret of
\* the code generated last and what a caller types for that code: the code,
\* the code with a blank in it, nothing, blanks, five of its digits, seven
\* digits, a letter among the digits.
CodesVerify ==
  /\ ret.op = "generateTwoFactorCode"
  /\ \E code \in {ret.out.code, typed(ret.out.code), NoString, <<" ", " ">>,
                  SubSeq(ret.out.code, 1, 5), ret.out.code \o <<"0">>,
                  <<"x">> \o SubSeq(ret.out.code, 2, 6)} :
       ret' = Ret("verifyTwoFactorCode", "ok", NoString,
                  [secret |-> ret.out.secret, timestamp |-> ret.out.timestamp,
                   generated |-> ret.out.code, code |-> code, at |-> now,
                   accepted |-> verifyTwoFactorCode(ret.out.secret, code, now)])
  /\ UNCHANGED <<accounts, challenges, user, pendingVerification, now, tasks,
                 challengesMade, ticks, spent, mode, fuel>>

NextCodes ==
  \/ CodesGenerate
  \/ CodesShift
  \/ CodesVerify

SpecCodes == InitCodes /\ [][NextCodes]_vars

(***************************************************************************)
(* Properties                                                              *)
(***************************************************************************)

\* C1.  After any sequence of calls, calls that overlap at the email-send
\* included, no two email-verified accounts have the same normalized email.
VerifiedEmailsUnique ==
  \A i, j \in DOMAIN accounts :
    (i # j /\ accounts[i].emailVerified /\ accounts[j].emailVerified)
      => accounts[i].email # accounts[j].email

\* C2.  verifyTwoFactor on a challenge that is still in the registry but whose
\* issue time plus the lifetime is not after the current time fails with
\* NotFound and establishes no session, also when the submitted code or
\* recovery code is a valid one of the account.
ExpiredChallengeRejected ==
  [][\A c \in challenges :
       LET a == findById(accounts, c.accountId)
       IN  (c.issuedAt + CHALLENGE_EXPIRY_MS <= now /\ a # 0) =>
             \A code \in {NoString} \cup codeInputs(accounts[a].twoFactorSecret),
                recoveryCode \in {NoString} \cup recoveryInputs(accounts[a]) :
               (/\ verifyTwoFactor(c.challengeId, code, recoveryCode)
                /\ IF recoveryCode # NoString
                     THEN normalizeCode(recoveryCode) \in Range(accounts[a].recoveryCodes)
                     ELSE verifyTwoFactorCode(accounts[a].twoFactorSecret, code, now))
                 => (ret'.status = "NotFound" /\ user' = user)]_vars

\* C3.  A challenge is single use: a verifyTwoFactor that succeeds removes
\* its challenge id from the registry, an id that was issued and has left
\* the registry never returns to it, and verifyTwoFactor with an id that is
\* not in the registry fails with NotFound and changes nothing, whatever
\* code or recovery code is submitted.
ChallengeSingleUse ==
  [][/\ \A k \in 1..challengesMade :
          k \notin ids(challenges) => k \notin ids(challenges')
     /\ ret'.op = "verifyTwoFactor" =>
          /\ ret'.status = "success" => ret'.out.challengeId \notin ids(challenges')
          /\ ret'.out.challengeId \notin ids(challenges) =>
               /\ ret'.status = "NotFound"
               /\ UNCHANGED <<accounts, challenges, user, pendingVerification>>]_vars

\* A verifyTwoFactor failed with NotFound for a challenge id that was issued
\* and, the clock not having advanced, can only have been used up.
ChallengeSingleUseSeen ==
  /\ ret.op = "verifyTwoFactor"
  /\ ret.status = "NotFound"
  /\ ret.out.challengeId \in 1..challengesMade
  /\ ticks = 0
  /\ user # NoUser

\* C4.  A recovery code that verifyTwoFactor or recoverAccount accepted for
\* an account is accepted by no later verifyTwoFactor or recoverAccount for
\* that account (generated codes differ from all codes the state holds).
SpentCodeRejected ==
  [][spent # NoSpent =>
       /\ ~(/\ ret'.op = "verifyTwoFactor"
            /\ ret'.status = "success"
            /\ ret'.out.user.id = spent.id
            /\ ret'.out.recoveryCode = spent.code)
       /\ ~(/\ ret'.op = "recoverAccount"
            /\ ret'.status = "ok"
            /\ ret'.out.id = spent.id
            /\ ret'.out.recoveryCode = spent.code)]_vars

\* C5.  After every completed operation, every account with two-factor
\* login enabled has a non-empty list of recovery codes.
RecoveryCodesNonEmpty ==
  \A i \in DOMAIN accounts :
    accounts[i].twoFactorEnabled => accounts[i].recoveryCodes # <<>>

RECURSIVE removeOne(_, _)
\* codes without its first entry that matches the normalized code.
removeOne(codes, code) ==
  IF codes = <<>> THEN <<>>
  ELSE IF normalizeCode(Head(codes)) = code THEN Tail(codes)
  ELSE <<Head(codes)>> \o removeOne(Tail(codes), code)

\* C6.  When verifyTwoFactor accepts a recovery code, the list of the account
\* loses exactly one entry: the first one that matches, ignoring letter case
\* and whitespace; every other entry, a duplicate of the matched code
\* included, is kept in order.  (An accepted code that is the only entry of
\* the list makes the list be generated anew.)
OneOccurrenceRemoved ==
  [][(/\ ret'.op = "verifyTwoFactor"
      /\ ret'.status = "success"
      /\ ret'.out.recoveryCode # NoString)
       => LET id     == ret'.out.user.id
              before == accountOf(accounts, id).recoveryCodes
              after  == accountOf(accounts', id).recoveryCodes
          IN  Len(before) > 1 => after = removeOne(before, ret'.out.recoveryCode)]_vars

\* C7.  login with an unknown email and login with a known email and a wrong
\* password fail alike: with InvalidCredentials and nothing else, whatever
\* the account's verified and two-factor state and whatever code is
\* submitted, and without a change of state.
LoginFailsUniformly ==
  [][ret'.op = "login" =>
       \A email \in RawEmails, password \in RawPasswords :
         LET e == findByEmail(accounts, normalizeEmail(email))
         IN  (/\ ret'.email = normalizeEmail(email)
              /\ (e = 0 \/ accounts[e].password # trim(password))) =>
               \A code \in codeInputs(secretOf(email)) :
                 login(email, password, code) =>
                   /\ ret' = Ret("login", "InvalidCredentials", normalizeEmail(email),
                                 NoString)
                   /\ UNCHANGED <<accounts, challenges, user, pendingVerification,
                                  tasks>>]_vars

\* A login with a wrong password failed for a verified account with
\* two-factor login enabled.
LoginFailsUniformlySeen ==
  /\ ret.op = "login"
  /\ ret.status = "InvalidCredentials"
  /\ \E i \in DOMAIN accounts :
       /\ accounts[i].email = ret.email
       /\ accounts[i].emailVerified
       /\ accounts[i].twoFactorEnabled

\* C8.  register, with a password of the minimum length, for an email that an
\* email-verified account has fails with Conflict, suspends no call at the
\* email-send and leaves accounts, session user and pending verification
\* unchanged.  (Violated: register looks at the first account with the email
\* only, and after overlapping calls an unverified account with the email can
\* come before the verified one.)
VerifiedEmailConflict ==
  [][ret'.op = "register" =>
       \A name \in RawNames, email \in RawEmails, password \in RawPasswords \cup {Password1} :
         (/\ Len(trim(password)) >= MinPasswordLength
          /\ \E i \in DOMAIN accounts :
               accounts[i].email = normalizeEmail(email) /\ accounts[i].emailVerified
          /\ register(name, email, password))
           => /\ ret' = Ret("register", "Conflict", normalizeEmail(email), NoString)
              /\ UNCHANGED <<accounts, user, pendingVerification, tasks>>]_vars

\* C9.  A register for the email of an unverified account, run from its call
\* to its end with no other operation in between and no other call
\* suspended at its email-send, overwrites that account in place: the
\* accounts are as many as before, the account keeps its id, creation time
\* and two-factor secret, it is unverified with two-factor login off, and
\* it has the password of the call, new recovery codes, and a new
\* verification code and expiry: the code issued before differs from the
\* one it now waits for.
ReRegisterOverwrites ==
  [][\A t \in tasks :
       (/\ t.kind = "register"
        /\ t.existed
        /\ tasks = {t}
        /\ ret = Ret("register", "awaiting-send", t.email, NoString)
        /\ sendResolved(t))
         => LET e   == findByEmail(accounts, t.email)
                old == accounts[e]
                new == accounts'[e]
            IN  /\ ret'.status = "pending-verification"
                /\ Len(accounts') = Len(accounts)
                /\ new.id = old.id
                /\ new.createdAt = old.createdAt
                /\ new.twoFactorSecret = old.twoFactorSecret
                /\ new.email = old.email
                /\ ~new.emailVerified
                /\ ~new.twoFactorEnabled
                /\ new.password = t.acct.password
                /\ new.recoveryCodes = ret'.out.recoveryCodes
                /\ Len(new.recoveryCodes) = CodeCount
                /\ Range(new.recoveryCodes) \cap Range(old.recoveryCodes) = {}
                /\ new.verificationCode = t.code
                /\ new.verificationCode # old.verificationCode
                /\ new.verificationExpiresAt = t.expiresAt
                /\ \A i \in DOMAIN accounts : i # e => accounts'[i] = accounts[i]]_vars

\* A register for the email of the only account, which was unverified, has
\* completed: the account waits for a later code than the first one issued
\* and has the password of the second call.
ReRegisterOverwritesSeen ==
  /\ ret.op = "register"
  /\ ret.status = "pending-verification"
  /\ Len(accounts) = 1
  /\ tasks = {}
  /\ accounts[1].email = ret.email
  /\ accounts[1].verificationCode # verificationCodeAt(0)
  /\ accounts[1].password = Password2
  /\ ~accounts[1].emailVerified

\* C10.  register and resendVerification change neither accounts nor the
\* pending verification nor the session user before the email-send has
\* resolved; when the send fails they fail with DeliveryFailed and the
\* message of the collaborator, and the state is as before the call.
NoChangeBeforeSend ==
  [][/\ (/\ ret'.op \in {"register", "resendVerification"}
         /\ ret'.status \notin {"pending-verification", "ok"})
          => UNCHANGED <<accounts, challenges, user, pendingVerification>>
     /\ \A t \in tasks, failure \in SendFailures :
          sendRejected(t, failure) =>
            /\ ret'.status = "DeliveryFailed"
            /\ failure.isError =>
                 /\ Len(ret'.out) >= Len(failure.message)
                 /\ SubSeq(ret'.out, 1, Len(failure.message)) = failure.message
            /\ tasks' = tasks \ {t}
            /\ UNCHANGED <<accounts, challenges, user, pendingVerification>>]_vars

\* A resendVerification failed at the send with a message that contains
\* "Failed to fetch" after other text, the message thrown is longer than the
\* collaborator's (the hint was appended), and the account still waits for
\* the code it was sent before.
NoChangeBeforeSendSeen ==
  /\ ret.op = "resendVerification"
  /\ ret.status = "DeliveryFailed"
  /\ \E failure \in SendFailures :
       /\ failure.isError
       /\ failure.message[1] = "T"
       /\ Len(ret.out) > Len(failure.message)
       /\ SubSeq(ret.out, 1, Len(failure.message)) = failure.message
  /\ \E i \in DOMAIN accounts :
       /\ accounts[i].email = ret.email
       /\ ~accounts[i].emailVerified
       /\ accounts[i].verificationCode = verificationCodeAt(0)

\* The session user of an account whose email is verified.
verifiedUser(acc) ==
  [id |-> acc.id, name |-> acc.name, email |-> acc.email, createdAt |-> acc.createdAt,
   twoFactorEnabled |-> acc.twoFactorEnabled, emailVerified |-> TRUE]

\* C11.  verifyEmail with the code an unverified account waits for, at or
\* before its expiry, makes that account verified, clears its code and
\* expiry, leaves every other field and every other account as it was, and
\* sets the session user to the account.  verifyEmail (with a code that is
\* not blank) for the email of a verified account returns that account's
\* user and changes no account; made right after a successful verifyEmail
\* for the same email, it returns the user the first call returned.
ConfirmVerifiesOnce ==
  [][\A email \in RawEmails :
       \A code \in verificationInputsOf(email) :
         LET e   == findByEmail(accounts, normalizeEmail(email))
             old == accounts[e]
         IN  (/\ ret'.op = "verifyEmail"
              /\ e # 0
              /\ normalizeCode(code) # NoString
              /\ verifyEmail(email, code))
             => /\ (/\ ~old.emailVerified
                    /\ old.verificationCode = normalizeCode(code)
                    /\ now <= old.verificationExpiresAt)
                   => /\ ret'.status = "verified"
                      /\ accounts' = [accounts EXCEPT ![e] =
                                        [old EXCEPT !.emailVerified = TRUE,
                                                    !.verificationCode = NoString,
                                                    !.verificationExpiresAt = NoTime]]
                      /\ user' = verifiedUser(old)
                      /\ ret'.out = user'
                /\ old.emailVerified
                   => /\ ret'.status = "already-verified"
                      /\ accounts' = accounts
                      /\ user' = verifiedUser(old)
                      /\ ret'.out = user'
                /\ (/\ ret.op = "verifyEmail"
                    /\ ret.status = "verified"
                    /\ ret.email = normalizeEmail(email))
                   => /\ ret'.status = "already-verified"
                      /\ ret'.out = ret.out
                      /\ accounts' = accounts]_vars

\* A second verifyEmail for the email of an account that the first one
\* verified has returned its user.
ConfirmVerifiesOnceSeen ==
  /\ ret.op = "verifyEmail"
  /\ ret.status = "already-verified"
  /\ ret.out = user
  /\ \E i \in DOMAIN accounts :
       /\ accounts[i].email = ret.email
       /\ accounts[i].emailVerified
       /\ accounts[i].verificationCode = NoString
       /\ accounts[i].verificationExpiresAt = NoTime
       /\ user = verifiedUser(accounts[i])

\* C12.  verifyEmail with a code that is not blank, for the email of an
\* unverified account, fails with NoPendingCode when the account holds no
\* code, with Mismatch when the code (with blanks removed and in upper case)
\* is not the one the account holds, and with Expired when it is that code
\* and the clock is past the expiry the account holds; each time the
\* accounts and the session user stay as they were.
ConfirmFailures ==
  [][\A email \in RawEmails :
       \A code \in verificationInputsOf(email) :
         LET e   == findByEmail(accounts, normalizeEmail(email))
             old == accounts[e]
         IN  (/\ ret'.op = "verifyEmail"
              /\ e # 0
              /\ ~old.emailVerified
              /\ normalizeCode(code) # NoString
              /\ verifyEmail(email, code))
             => /\ old.verificationCode = NoString => ret'.status = "NoPendingCode"
                /\ (/\ old.verificationCode # NoString
                    /\ old.verificationCode # normalizeCode(code))
                   => ret'.status = "Mismatch"
                /\ (/\ old.verificationCode # NoString
                    /\ old.verificationCode = normalizeCode(code)
                    /\ old.verificationExpiresAt # NoTime
                    /\ now > old.verificationExpiresAt)
                   => ret'.status = "Expired"
                /\ ret'.status \in {"NoPendingCode", "Mismatch", "Expired"}
                   => /\ accounts' = accounts
                      /\ user' = user
                      /\ ~accounts'[e].emailVerified]_vars

\* verifyEmail failed with Expired for an account that still holds its code.
ConfirmFailuresSeen ==
  /\ ret.op = "verifyEmail"
  /\ ret.status = "Expired"
  /\ user = NoUser
  /\ \E i \in DOMAIN accounts :
       /\ accounts[i].email = ret.email
       /\ ~accounts[i].emailVerified
       /\ accounts[i].verificationCode # NoString
       /\ accounts[i].verificationExpiresAt < now

\* C13.  resendVerification for the email of an unverified account draws a
\* code other than the one the account holds and an expiry 15 minutes after
\* the call; when its email-send has resolved the account holds that code
\* and expiry and is unverified.  A verifyEmail made right after that fails
\* with Mismatch for every code other than the new one (so for the code
\* held before), and with the new code it succeeds while the clock is not
\* past the expiry.  resendVerification for the email of a verified account
\* fails with AlreadyVerified and changes nothing.
ResendReplacesCode ==
  [][/\ ret'.op = "resendVerification" =>
        \A email \in RawEmails :
          LET e == findByEmail(accounts, normalizeEmail(email))
          IN  (/\ ret'.op = "resendVerification"
               /\ e # 0
               /\ resendVerification(email))
              => IF accounts[e].emailVerified
                   THEN /\ ret'.status = "AlreadyVerified"
                        /\ UNCHANGED <<accounts, user, pendingVerification, tasks, challenges>>
                   ELSE /\ ret'.status = "awaiting-send"
                        /\ \E t \in tasks' \ tasks :
                             /\ tasks' = tasks \cup {t}
                             /\ t.kind = "resend"
                             /\ t.acct.id = accounts[e].id
                             /\ t.expiresAt = now + 15 * 60 * 1000
                             /\ t.code # accounts[e].verificationCode
     /\ \A t \in tasks :
          (/\ ret'.op = "resendVerification"
           /\ t.kind = "resend"
           /\ sendResolved(t))
          => LET new == accountOf(accounts', t.acct.id)
             IN  /\ ret' = Ret("resendVerification", "ok", t.email, NoString)
                 /\ Len(accounts') = Len(accounts)
                 /\ new.id = t.acct.id
                 /\ new.verificationCode = t.code
                 /\ new.verificationExpiresAt = t.expiresAt
                 /\ ~new.emailVerified
     /\ (ret'.op = "verifyEmail" /\ ret.op = "resendVerification") =>
        \A email \in RawEmails :
          \A code \in verificationInputsOf(email) \cup {verificationCodeAt(i) : i \in 0..3} :
            LET e   == findByEmail(accounts, normalizeEmail(email))
                old == accounts[e]
            IN  (/\ ret'.op = "verifyEmail"
                 /\ ret = Ret("resendVerification", "ok", normalizeEmail(email), NoString)
                 /\ normalizeCode(code) # NoString
                 /\ verifyEmail(email, code))
                => /\ e # 0
                   /\ ~old.emailVerified
                   /\ ret'.status =
                        (IF normalizeCode(code) # old.verificationCode THEN "Mismatch"
                         ELSE IF now <= old.verificationExpiresAt THEN "verified"
                         ELSE "Expired")]_vars

\* A resendVerification has completed for an account that held the first
\* code issued: it now holds another one, with an expiry 15 minutes ahead.
ResendReplacesCodeSeen ==
  /\ ret.op = "resendVerification"
  /\ ret.status = "ok"
  /\ tasks = {}
  /\ \E i \in DOMAIN accounts :
       /\ accounts[i].email = ret.email
       /\ ~accounts[i].emailVerified
       /\ accounts[i].verificationCode # NoString
       /\ accounts[i].verificationCode # verificationCodeAt(0)
       /\ accounts[i].verificationExpiresAt = now + VERIFICATION_EXPIRY_MS
       /\ pendingVerification = [email |-> ret.email,
                                 expiresAt |-> toISOString(now + VERIFICATION_EXPIRY_MS)]

\* C14.  Every account holds a verification code and an expiry together or
\* neither of them, and a verified account holds neither.
VerificationPairConsistent ==
  \A i \in DOMAIN accounts :
    /\ accounts[i].verificationCode = NoString <=> accounts[i].verificationExpiresAt = NoTime
    /\ accounts[i].emailVerified
       => /\ accounts[i].verificationCode = NoString
          /\ accounts[i].verificationExpiresAt = NoTime

\* A verified account without code and expiry, next to an unverified one
\* that holds both.
VerificationPairConsistentSeen ==
  \E i, j \in DOMAIN accounts :
    /\ accounts[i].emailVerified
    /\ accounts[i].verificationCode = NoString
    /\ accounts[i].verificationExpiresAt = NoTime
    /\ ~accounts[j].emailVerified
    /\ accounts[j].verificationCode # NoString
    /\ accounts[j].verificationExpiresAt # NoTime

\* The three windows verifyTwoFactorCode accepts a code of: the code, with
\* blanks removed, is six digits and is the code of the secret in the window
\* of the clock, the one before or the one after.
acceptedCode(secret, code) ==
  LET digits == stripWhitespace(code)
  IN  /\ Len(digits) = 6
      /\ \A i \in 1..Len(digits) : digits[i] \in Digits
      /\ \E at \in {now - TwoFactorWindowMs, now, now + TwoFactorWindowMs} :
           digits = generateTwoFactorCode(secret, at)

\* C15.  login with the password of an unverified account returns
\* needs-verification whatever code is passed, and leaves the session user,
\* the challenges and the accounts as they were.
UnverifiedLoginRefused ==
  [][ret'.op = "login" =>
     \A email \in RawEmails, password \in RawPasswords :
       LET e == findByEmail(accounts, normalizeEmail(email))
       IN  (/\ ret'.email = normalizeEmail(email)
            /\ e # 0
            /\ accounts[e].password = trim(password)
            /\ ~accounts[e].emailVerified)
           => \A code \in codeInputs(secretOf(email)) :
                login(email, password, code)
                => /\ ret'.status = "needs-verification"
                   /\ ret'.email = accounts[e].email
                   /\ user' = user
                   /\ challenges' = challenges
                   /\ challengesMade' = challengesMade
                   /\ accounts' = accounts]_vars

\* A login was answered with needs-verification while another account's
\* user was signed in, and that user still is.
UnverifiedLoginRefusedSeen ==
  /\ ret.op = "login"
  /\ ret.status = "needs-verification"
  /\ user # NoUser
  /\ challenges = {}
  /\ \E i \in DOMAIN accounts :
       /\ accounts[i].email = ret.email
       /\ ~accounts[i].emailVerified
       /\ accounts[i].id # user.id

\* C16.  login with the password of a verified account with two-factor
\* login on, and no code, returns two-factor with the id of a challenge
\* that was not there before, that names the account and is stamped with the
\* clock; no other challenge changes and the session user stays as it was.
LoginIssuesChallenge ==
  [][ret'.op = "login" =>
     \A email \in RawEmails, password \in RawPasswords :
       LET e == findByEmail(accounts, normalizeEmail(email))
       IN  (/\ ret'.op = "login"
            /\ ret'.email = normalizeEmail(email)
            /\ e # 0
            /\ accounts[e].password = trim(password)
            /\ accounts[e].emailVerified
            /\ accounts[e].twoFactorEnabled
            /\ login(email, password, NoString))
           => /\ ret'.status = "two-factor"
              /\ user' = user
              /\ accounts' = accounts
              /\ \E c \in challenges' :
                   /\ c.challengeId = ret'.out.challengeId
                   /\ c.challengeId \notin ids(challenges)
                   /\ c.accountId = accounts[e].id
                   /\ c.issuedAt = now
                   /\ challenges' = challenges \cup {c}]_vars

\* A login was answered with a challenge issued after the clock has advanced.
LoginIssuesChallengeSeen ==
  /\ ret.op = "login"
  /\ ret.status = "two-factor"
  /\ now > 0
  /\ user = NoUser
  /\ \E c \in challenges :
       /\ c.challengeId = ret.out.challengeId
       /\ c.issuedAt = now
       /\ accountOf(accounts, c.accountId).email = ret.email
       /\ accountOf(accounts, c.accountId).twoFactorEnabled

\* C17.  login with the password of a verified account with two-factor
\* login on, and a code that is not empty and is not the account's code in
\* the window of the clock, the one before or the one after, fails with
\* InvalidCode and leaves the session user as it was.
WrongCodeFailsLogin ==
  [][ret'.op = "login" =>
     \A email \in RawEmails, password \in RawPasswords :
       LET e == findByEmail(accounts, normalizeEmail(email))
       IN  (/\ ret'.email = normalizeEmail(email)
            /\ e # 0
            /\ accounts[e].password = trim(password)
            /\ accounts[e].emailVerified
            /\ accounts[e].twoFactorEnabled)
           => \A code \in codeInputs(secretOf(email)) :
                (/\ code # NoString
                 /\ ~acceptedCode(accounts[e].twoFactorSecret, code)
                 /\ login(email, password, code))
                => /\ ret'.status = "InvalidCode"
                   /\ user' = user
                   /\ accounts' = accounts]_vars

\* A login with a code failed with InvalidCode and nobody is signed in.
WrongCodeFailsLoginSeen ==
  /\ ret.op = "login"
  /\ ret.status = "InvalidCode"
  /\ user = NoUser
  /\ \E i \in DOMAIN accounts :
       /\ accounts[i].email = ret.email
       /\ accounts[i].emailVerified
       /\ accounts[i].twoFactorEnabled

\* C18.  login with the password of an account returns success exactly when
\* the account is verified and either has two-factor login off or the code
\* passed is accepted for its secret; the session user then is the user of
\* that account, with emailVerified true, and it is what login returns.
LoginSucceedsWhenVerified ==
  [][ret'.op = "login" =>
     \A email \in RawEmails, password \in RawPasswords :
       LET e == findByEmail(accounts, normalizeEmail(email))
       IN  (/\ ret'.email = normalizeEmail(email)
            /\ e # 0
            /\ accounts[e].password = trim(password))
           => \A code \in codeInputs(secretOf(email)) :
                login(email, password, code)
                => /\ ret'.status = "success"
                      <=> /\ accounts[e].emailVerified
                          /\ \/ ~accounts[e].twoFactorEnabled
                             \/ /\ code # NoString
                                /\ acceptedCode(accounts[e].twoFactorSecret, code)
                   /\ ret'.status = "success"
                      => /\ user' = verifiedUser(accounts[e])
                         /\ ret'.out = user'
                         /\ accounts' = accounts]_vars

\* After a register, a verifyEmail and a logout, a login returned success
\* for the account, without two-factor login.
LoginSucceedsWhenVerifiedSeen ==
  /\ ret.op = "login"
  /\ ret.status = "success"
  /\ ret.out = user
  /\ user.emailVerified
  /\ ~user.twoFactorEnabled
  /\ Len(accounts) = 1
  /\ accounts[1].password = Password1
  /\ user = verifiedUser(accounts[1])

\* C19.  The code in the hint of a challenge is the code of the account's
\* secret for the clock at the issue.  While the account keeps that secret
\* and the clock is in the window of the issue or in the one before or
\* after it, verifyTwoFactor with the challenge id and that code succeeds:
\* the session user is the user of the challenged account, the call
\* returns it, and the challenge is gone.
HintedCodeAccepted ==
  [][/\ (ret'.op = "login" /\ ret'.status = "two-factor")
        => \E c \in challenges' \ challenges :
             /\ c.challengeId = ret'.out.challengeId
             /\ c.issuedAt = now
             /\ ret'.out.code =
                  codeOfWindow(accountOf(accounts, c.accountId).twoFactorSecret,
                               now \div TwoFactorWindowMs)
     /\ ret'.op = "verifyTwoFactor"
        => \A c \in challenges :
             LET account == accountOf(accounts, c.accountId)
                 hinted  == codeOfWindow(account.twoFactorSecret,
                                         c.issuedAt \div TwoFactorWindowMs)
                 window  == now \div TwoFactorWindowMs
                 issued  == c.issuedAt \div TwoFactorWindowMs
             IN  (/\ issued \in {window - 1, window, window + 1}
                  /\ verifyTwoFactor(c.challengeId, hinted, NoString))
                 => /\ ret'.status = "success"
                    /\ user' = [id |-> account.id, name |-> account.name,
                                email |-> account.email, createdAt |-> account.createdAt,
                                twoFactorEnabled |-> account.twoFactorEnabled,
                                emailVerified |-> account.emailVerified]
                    /\ ret'.out.user = user'
                    /\ c.challengeId \notin ids(challenges')]_vars

\* The one challenge issued, at clock 0, was answered one window later with
\* the code of its hint: its account's user is signed in and it is gone.
HintedCodeAcceptedSeen ==
  /\ ret.op = "verifyTwoFactor"
  /\ ret.status = "success"
  /\ challengesMade = 1
  /\ challenges = {}
  /\ ticks = 1
  /\ now = TwoFactorWindowMs
  /\ user = ret.out.user
  /\ user.twoFactorEnabled

\* C20.  In verifyTwoFactor a recovery code that is not empty decides alone,
\* whatever numeric code comes with it: if it equals none of the account's
\* recovery codes (blanks removed, upper case) the call fails with
\* InvalidRecoveryCode, changing nothing, and if it equals one the call
\* succeeds and signs the account's user in.
RecoveryCodeTakesPrecedence ==
  [][ret'.op = "verifyTwoFactor" =>
     \A c \in challenges :
       LET a       == findById(accounts, c.accountId)
           account == accounts[a]
       IN  a # 0 =>
           \A code \in {NoString} \cup codeInputs(account.twoFactorSecret),
              recoveryCode \in recoveryInputs(account) :
             LET matches == \E i \in DOMAIN account.recoveryCodes :
                              normalizeCode(account.recoveryCodes[i])
                                = normalizeCode(recoveryCode)
             IN  (/\ recoveryCode # NoString
                  /\ verifyTwoFactor(c.challengeId, code, recoveryCode))
                 => IF matches
                      THEN /\ ret'.status = "success"
                           /\ ret'.out.recoveryCode = normalizeCode(recoveryCode)
                           /\ user'.id = account.id
                           /\ c.challengeId \notin ids(challenges')
                      ELSE /\ ret'.status = "InvalidRecoveryCode"
                           /\ UNCHANGED <<accounts, user, challenges>>]_vars

\* verifyTwoFactor succeeded by a recovery code, which the account no longer
\* has.
RecoveryCodeTakesPrecedenceSeen ==
  /\ ret.op = "verifyTwoFactor"
  /\ ret.status = "success"
  /\ ret.out.recoveryCode # NoString
  /\ user = ret.out.user
  /\ \A i \in DOMAIN accountOf(accounts, user.id).recoveryCodes :
       accountOf(accounts, user.id).recoveryCodes[i] # ret.out.recoveryCode

\* C21.  The two-factor secret of an account, once set, changes in a step
\* only if that step is disableTwoFactor by the account's signed-in user with
\* two-factor login on, or a successful recoverAccount of that account.
SecretRetained ==
  [][\A i \in DOMAIN accounts : \A j \in DOMAIN accounts' :
       (/\ accounts[i].id = accounts'[j].id
        /\ accounts[i].twoFactorSecret # NoString
        /\ accounts'[j].twoFactorSecret # accounts[i].twoFactorSecret)
       => \/ /\ ret'.op = "disableTwoFactor"
             /\ ret'.status = "ok"
             /\ accounts[i].twoFactorEnabled
             /\ user.id = accounts[i].id
          \/ /\ ret'.op = "recoverAccount"
             /\ ret'.status = "ok"
             /\ ret'.out.id = accounts[i].id]_vars

\* C22.  enableTwoFactor by a signed-in user fails with AlreadyEnabled and
\* changes nothing when the account has two-factor login on.  Otherwise it
\* turns it on in the account and in the session user, keeps the secret the
\* account has, stores recovery codes none of which the account had, and
\* returns that secret, those codes and the code of the secret at the
\* current time.
EnableTwoFactorEffect ==
  [][(ret'.op = "enableTwoFactor" /\ user # NoUser) =>
     LET a       == findById(accounts, user.id)
         account == accounts[a]
         after   == accountOf(accounts', user.id)
     IN  a # 0 =>
         IF account.twoFactorEnabled
           THEN /\ ret'.status = "AlreadyEnabled"
                /\ UNCHANGED <<accounts, user, challenges, pendingVerification>>
           ELSE /\ ret'.status = "ok"
                /\ user' = [user EXCEPT !.twoFactorEnabled = TRUE]
                /\ after.twoFactorEnabled
                /\ after.twoFactorSecret # NoString
                /\ account.twoFactorSecret # NoString
                     => after.twoFactorSecret = account.twoFactorSecret
                /\ Len(after.recoveryCodes) = CodeCount
                /\ \A i \in DOMAIN after.recoveryCodes, k \in DOMAIN account.recoveryCodes :
                     after.recoveryCodes[i] # account.recoveryCodes[k]
                /\ after = [account EXCEPT !.twoFactorEnabled = TRUE,
                                           !.twoFactorSecret = after.twoFactorSecret,
                                           !.recoveryCodes = after.recoveryCodes]
                /\ \A i \in DOMAIN accounts :
                     i # a => accounts'[i] = accounts[i]
                /\ ret'.out.secret = after.twoFactorSecret
                /\ ret'.out.recoveryCodes = after.recoveryCodes
                /\ ret'.out.currentCode = generateTwoFactorCode(after.twoFactorSecret, now)
                /\ verifyTwoFactorCode(after.twoFactorSecret, ret'.out.currentCode, now)
                /\ UNCHANGED <<challenges, pendingVerification>>]_vars

\* enableTwoFactor succeeded on the account registered first: it returned the
\* secret of the registration and new recovery codes.
EnableTwoFactorEffectSeen ==
  /\ ret.op = "enableTwoFactor"
  /\ ret.status = "ok"
  /\ user # NoUser
  /\ user.twoFactorEnabled
  /\ accountOf(accounts, user.id).twoFactorEnabled
  /\ accountOf(accounts, user.id).twoFactorSecret = secretAt(0)
  /\ ret.out.secret = secretAt(0)
  /\ ret.out.recoveryCodes = accountOf(accounts, user.id).recoveryCodes
  /\ ret.out.recoveryCodes[1] # recoveryCodeAt(0)

\* C23.  disableTwoFactor by a signed-in user whose account has two-factor
\* login on turns it off in the account and in the session user and stores a
\* new secret and new recovery codes; when it is already off the call
\* succeeds and leaves the accounts and the session user as they were.
DisableTwoFactorEffect ==
  [][(ret'.op = "disableTwoFactor" /\ user # NoUser) =>
     LET a       == findById(accounts, user.id)
         account == accounts[a]
         after   == accountOf(accounts', user.id)
     IN  a # 0 =>
         /\ ret'.status = "ok"
         /\ UNCHANGED <<challenges, pendingVerification>>
         /\ IF ~account.twoFactorEnabled
              THEN UNCHANGED <<accounts, user>>
              ELSE /\ user' = [user EXCEPT !.twoFactorEnabled = FALSE]
                   /\ ~after.twoFactorEnabled
                   /\ after.twoFactorSecret # NoString
                   /\ after.twoFactorSecret # account.twoFactorSecret
                   /\ Len(after.recoveryCodes) = CodeCount
                   /\ \A i \in DOMAIN after.recoveryCodes,
                         k \in DOMAIN account.recoveryCodes :
                        after.recoveryCodes[i] # account.recoveryCodes[k]
                   /\ after = [account EXCEPT !.twoFactorEnabled = FALSE,
                                              !.twoFactorSecret = after.twoFactorSecret,
                                              !.recoveryCodes = after.recoveryCodes]
                   /\ \A i \in DOMAIN accounts :
                        i # a => accounts'[i] = accounts[i]]_vars

\* disableTwoFactor turned two-factor login off: the account no longer has
\* the secret and the recovery codes of its registration.
DisableTwoFactorEffectSeen ==
  /\ ret.op = "disableTwoFactor"
  /\ ret.status = "ok"
  /\ user # NoUser
  /\ ~user.twoFactorEnabled
  /\ ~accountOf(accounts, user.id).twoFactorEnabled
  /\ accountOf(accounts, user.id).twoFactorSecret = secretAt(1)
  /\ accountOf(accounts, user.id).recoveryCodes[1] \notin {recoveryCodeAt(0), recoveryCodeAt(1)}

\* C24.  Right after recoverAccount succeeded for an email with a new
\* password that differs from the one the account had, login with that
\* email and the old password fails with InvalidCredentials and changes
\* nothing; and login with the new password, the account being verified,
\* succeeds without a second factor and returns a user whose two-factor
\* login is off.
RecoveredLogin ==
  [][(ret.op = "recoverAccount" /\ ret.status = "ok" /\ ret'.op = "login") =>
     \A email \in RawEmails, password \in RawPasswords :
       LET e       == findByEmail(accounts, ret.email)
           account == accounts[e]
       IN  (/\ normalizeEmail(email) = ret.email
            /\ ret'.email = ret.email
            /\ e # 0
            /\ account.id = ret.out.id
            /\ login(email, password, NoString))
           => /\ (/\ ret.out.newPassword # ret.out.oldPassword
                  /\ trim(password) = ret.out.oldPassword)
                 => /\ ret'.status = "InvalidCredentials"
                    /\ UNCHANGED <<accounts, user, challenges>>
              /\ (trim(password) = ret.out.newPassword /\ account.emailVerified)
                 => /\ ret'.status = "success"
                    /\ ret'.out = verifiedUser(account)
                    /\ ~ret'.out.twoFactorEnabled
                    /\ user' = ret'.out
                    /\ UNCHANGED <<accounts, challenges>>]_vars

\* The fifth operation of a run (after register with the first password, the
\* send, verifyEmail and recoverAccount) was a login that succeeded with the
\* second password, on an account with a new secret and two-factor login off.
RecoveredLoginSeen ==
  /\ ret.op = "login"
  /\ ret.status = "success"
  /\ fuel = RecoverSteps - 5
  /\ user = ret.out
  /\ ~user.twoFactorEnabled
  /\ accountOf(accounts, user.id).password = Password2
  /\ accountOf(accounts, user.id).twoFactorSecret = secretAt(1)

\* C25.  recoverAccount for an email that has an account fails with
\* InvalidRecoveryCode when the recovery code (blanks removed, upper case)
\* equals none of the account's codes, and with a validation error when it
\* equals one but the new password has fewer than six characters after
\* trimming; either way every account, its recovery codes included, stays
\* as it was.
RecoveryRefused ==
  [][ret'.op = "recoverAccount" =>
     \A email \in RawEmails :
       LET e       == findByEmail(accounts, normalizeEmail(email))
           account == accounts[e]
       IN  (ret'.email = normalizeEmail(email) /\ e # 0) =>
           \A recoveryCode \in {NoString} \cup recoveryInputs(account),
              newPassword \in RawPasswords :
             LET matches == \E i \in DOMAIN account.recoveryCodes :
                              normalizeCode(account.recoveryCodes[i])
                                = normalizeCode(recoveryCode)
             IN  (/\ ~matches \/ Len(trim(newPassword)) < MinPasswordLength
                  /\ recoverAccount(email, recoveryCode, newPassword))
                 => /\ ret'.status = IF ~matches THEN "InvalidRecoveryCode"
                                     ELSE "WeakPassword"
                    /\ UNCHANGED <<accounts, user, challenges>>]_vars

\* recoverAccount refused a password that is too short: the account still
\* has the password and both recovery codes of its registration.
RecoveryRefusedSeen ==
  /\ ret.op = "recoverAccount"
  /\ ret.status = "WeakPassword"
  /\ accounts # <<>>
  /\ accounts[1].email = ret.email
  /\ accounts[1].password = Password1
  /\ accounts[1].recoveryCodes = <<recoveryCodeAt(0), recoveryCodeAt(1)>>
  /\ accounts[1].twoFactorSecret = secretAt(0)

\* C26.  update by a signed-in user, with an email that is not empty after
\* normalization: when the email differs from the session user's and a
\* different, verified account has it, the call fails with EmailConflict
\* and the session user and the accounts stay as they were; in every other
\* case the normalized name and email are written to the session user and to
\* the account with the session user's id.
UpdateWritesProfile ==
  [][(ret'.op = "update" /\ user # NoUser) =>
     \A name \in PatchNames, email \in PatchEmails :
       LET nextName  == IF name # Absent THEN normalizeName(name) ELSE user.name
           nextEmail == IF email # Absent THEN normalizeEmail(email) ELSE user.email
           taken     == \E i \in DOMAIN accounts :
                          /\ accounts[i].email = nextEmail
                          /\ accounts[i].id # user.id
                          /\ accounts[i].emailVerified
       IN  (nextEmail # NoString /\ update(name, email))
           => IF nextEmail # user.email /\ taken
                THEN /\ ret'.status = "EmailConflict"
                     /\ UNCHANGED <<accounts, user>>
                ELSE /\ ret'.status = "ok"
                     /\ user' = [user EXCEPT !.name = nextName, !.email = nextEmail]
                     /\ \A i \in DOMAIN accounts :
                          accounts'[i] =
                            IF accounts[i].id = user.id
                              THEN [accounts[i] EXCEPT !.name = nextName,
                                                       !.email = nextEmail]
                              ELSE accounts[i]]_vars

\* C27.  logout succeeds in every state, leaves no session user and changes
\* neither the accounts nor the outstanding challenges; and what a login
\* does is fixed by the accounts, the clock and its inputs alone, whoever is
\* signed in, so that a login after a logout does what it did without the
\* session.
LogoutClearsSession ==
  [][/\ ret'.op = "logout"
        => /\ ret'.status = "ok"
           /\ user' = NoUser
           /\ UNCHANGED <<accounts, challenges, pendingVerification>>
     /\ ret'.op = "login"
        => \A email \in RawEmails, password \in RawPasswords :
             LET e       == findByEmail(accounts, normalizeEmail(email))
                 account == accounts[e]
             IN  ret'.email = normalizeEmail(email) =>
                 \A code \in codeInputs(secretOf(email)) :
                   login(email, password, code)
                   => /\ ret'.status =
                           IF e = 0 \/ account.password # trim(password)
                             THEN "InvalidCredentials"
                           ELSE IF ~account.emailVerified THEN "needs-verification"
                           ELSE IF ~account.twoFactorEnabled THEN "success"
                           ELSE IF acceptedCode(account.twoFactorSecret, code)
                             THEN "success"
                           ELSE IF code # NoString THEN "InvalidCode"
                           ELSE "two-factor"
                      /\ ret'.status = "success"
                           => user' = verifiedUser(account)
                      /\ ret'.status # "success" => user' = user
                      /\ accounts' = accounts]_vars

\* logout ended the session of a verified account while a challenge of the
\* account was outstanding: the account and the challenge are still there.
LogoutClearsSessionSeen ==
  /\ ret.op = "logout"
  /\ ret.status = "ok"
  /\ user = NoUser
  /\ challenges # {}
  /\ \E c \in challenges : \E i \in DOMAIN accounts :
       /\ accounts[i].id = c.accountId
       /\ accounts[i].emailVerified
       /\ accounts[i].twoFactorEnabled

\* C28.  The verifier, at the timestamp at, accepts the code generated for
\* the same secret at timestamp when at is timestamp, 30 s later or 30 s
\* earlier, rejects it when at is 60 s later or 60 s earlier, and rejects
\* whatever is not six decimal digits once its blanks are removed.
VerifierWindows ==
  ret.op = "verifyTwoFactorCode" =>
    LET sanitized == stripWhitespace(ret.out.code)
        distance  == ret.out.at - ret.out.timestamp
    IN  /\ ~isSixDigits(sanitized) => ~ret.out.accepted
        /\ (/\ sanitized = ret.out.generated
            /\ distance \in {0, TwoFactorWindowMs, 0 - TwoFactorWindowMs})
           => ret.out.accepted
        /\ (/\ sanitized = ret.out.generated
            /\ distance \in {2 * TwoFactorWindowMs, 0 - 2 * TwoFactorWindowMs})
           => ~ret.out.accepted

\* The code generated in window 3997, typed with a blank, was refused 60 s
\* later, when the verifier tries the windows 3998, 3999 and 4000.
VerifierWindowsSeen ==
  /\ ret.op = "verifyTwoFactorCode"
  /\ ret.out.timestamp = 3997 * TwoFactorWindowMs
  /\ ret.out.at = 3999 * TwoFactorWindowMs
  /\ ret.out.code # ret.out.generated
  /\ stripWhitespace(ret.out.code) = ret.out.generated
  /\ ~ret.out.accepted

\* The number a string of decimal digits stands for.
RECURSIVE digitsValue(_)
digitsValue(s) ==
  IF s = <<>> THEN 0
  ELSE 10 * digitsValue(SubSeq(s, 1, Len(s) - 1))
       + (CHOOSE d \in 0..9 : natToString(d) = <<s[Len(s)]>>)

\* C29.  generateTwoFactorCode returns six decimal digits, which read as a
\* number are the 32-bit hash of secret:window modulo 1000000, and the same
\* code for the first and the last millisecond of the timestamp's window;
\* for the secret JBSWY3DPEHPK3PXA in window 0 the code is 899025.
GeneratedCodeShape ==
  ret.op = "generateTwoFactorCode" =>
    LET secret == ret.out.secret
        first  == ret.out.timestamp - (ret.out.timestamp % TwoFactorWindowMs)
        window == first \div TwoFactorWindowMs
        hash   == hashString(secret \o <<":">> \o intToString(window))
    IN  /\ isSixDigits(ret.out.code)
        /\ digitsValue(ret.out.code) = mod1000000(hash)
        /\ generateTwoFactorCode(secret, first) = ret.out.code
        /\ generateTwoFactorCode(secret, first + TwoFactorWindowMs - 1) = ret.out.code
        /\ (secret = secretAt(0) /\ window = 0)
           => ret.out.code = <<"8", "9", "9", "0", "2", "5">>

\* A code was generated in the last millisecond of window 100, where the
\* hash modulo 1000000 has five digits: the code begins with 0.
GeneratedCodeShapeSeen ==
  /\ ret.op = "generateTwoFactorCode"
  /\ ret.out.secret = secretAt(0)
  /\ ret.out.timestamp = 101 * TwoFactorWindowMs - 1
  /\ ret.out.code = <<"0", "7", "3", "7", "4", "4">>

\* C30.  A step makes an account's user the session user, when another user
\* or none was signed in, only if it is a login with the account's password
\* on the verified account, with two-factor login off or an accepted
\* one-time code; a verifyTwoFactor on a challenge of the account with an
\* accepted one-time code or one of the account's recovery codes; or a
\* verifyEmail with the account's pending verification code before its
\* expiry.
SessionOnlyByProof ==
  [][(user' # NoUser /\ user'.id # user.id) =>
     LET a       == findById(accounts, user'.id)
         account == accounts[a]
     IN  /\ a # 0
         /\ \/ /\ ret'.op = "login"
               /\ ret'.status = "success"
               /\ \E password \in RawPasswords : account.password = trim(password)
               /\ account.emailVerified
               /\ \/ ~account.twoFactorEnabled
                  \/ \E code \in codeInputs(account.twoFactorSecret) :
                       acceptedCode(account.twoFactorSecret, code)
            \/ /\ ret'.op = "verifyTwoFactor"
               /\ ret'.status = "success"
               /\ \E c \in challenges :
                    /\ c.accountId = account.id
                    /\ c.challengeId \notin ids(challenges')
            \/ /\ ret'.op = "verifyEmail"
               /\ ret'.status = "verified"
               /\ ~account.emailVerified
               /\ account.verificationCode # NoString
               /\ ~codeExpired(account, now)]_vars

\* C31.  An account whose email is verified stays verified in every step,
\* and a step in which a suspended register or resendVerification resumes
\* leaves a verified account its password.
VerifiedStaysVerified ==
  [][\A i \in DOMAIN accounts : \A j \in DOMAIN accounts' :
       (accounts[i].id = accounts'[j].id /\ accounts[i].emailVerified)
       => /\ accounts'[j].emailVerified
          /\ ret'.op \in {"register", "resendVerification"}
               => accounts'[j].password = accounts[i].password]_vars

\* C32.  Whenever a user is signed in, an account with the user's id exists
\* and is verified, and the user's name, email, two-factor flag and verified
\* flag are the account's.
SessionMirrorsAccount ==
  user # NoUser
  => \E i \in DOMAIN accounts :
       /\ accounts[i].id = user.id
       /\ accounts[i].emailVerified
       /\ user.name = accounts[i].name
       /\ user.email = accounts[i].email
       /\ user.twoFactorEnabled = accounts[i].twoFactorEnabled
       /\ user.emailVerified = accounts[i].emailVerified

\* C33.  A login that does not return two-factor, and so one that fails
\* with InvalidCredentials or InvalidCode, leaves the outstanding challenges
\* as they were.
FailedLoginIssuesNothing ==
  [][(ret'.op = "login" /\ ret'.status # "two-factor")
     => challenges' = challenges]_vars

\* C34.  A register, login, verifyEmail, resendVerification, verifyTwoFactor,
\* update, enableTwoFactor or recoverAccount that ends in a failure leaves
\* the accounts and the session user as they were; a verifyTwoFactor that
\* fails with InvalidCode or InvalidRecoveryCode also leaves the challenges
\* as they were.
FailureChangesNothing ==
  [][(/\ ret'.op \in {"register", "login", "verifyEmail", "resendVerification",
                      "verifyTwoFactor", "update", "enableTwoFactor", "recoverAccount"}
      /\ ret'.status \notin {"ok", "success", "two-factor", "needs-verification",
                             "verified", "already-verified", "pending-verification",
                             "awaiting-send"})
     => /\ accounts' = accounts
        /\ user' = user
        /\ (/\ ret'.op = "verifyTwoFactor"
            /\ ret'.status \in {"InvalidCode", "InvalidRecoveryCode"})
           => challenges' = challenges]_vars

\* verifyTwoFactor refused a recovery code: the challenge is still
\* outstanding and its account has all its recovery codes.
FailureChangesNothingSeen ==
  /\ ret.op = "verifyTwoFactor"
  /\ ret.status = "InvalidRecoveryCode"
  /\ \E c \in challenges :
       /\ c.challengeId = ret.out.challengeId
       /\ Len(accountOf(accounts, c.accountId).recoveryCodes) = CodeCount

\* C35.  No two accounts have the same email and no two accounts have the
\* same id.
AccountKeysUnique ==
  \A i, j \in DOMAIN accounts :
    i # j => /\ accounts[i].email # accounts[j].email
             /\ accounts[i].id # accounts[j].id

\* C36.  The challenge sweep removes a challenge if and only if its issue
\* time plus the five-minute lifetime is not after the current time, adds
\* none, and changes neither the accounts nor the session user.
SweepRemovesExpired ==
  [][ret'.op = "cleanupChallenges"
     => /\ challenges' \subseteq challenges
        /\ \A c \in challenges :
             c \notin challenges' <=> c.issuedAt + 5 * 60 * 1000 <= now
        /\ UNCHANGED <<accounts, user, now>>]_vars

\* Seven steps from the start (register, the send, verifyEmail,
\* enableTwoFactor, login, the clock, the sweep) the sweep has removed the
\* one challenge issued, in the millisecond its lifetime ended.
SweepRemovesExpiredSeen ==
  /\ ret.op = "cleanupChallenges"
  /\ challengesMade = 1
  /\ challenges = {}
  /\ now = CHALLENGE_EXPIRY_MS
  /\ ticks = 1
  /\ fuel = MaxSteps - 7

\* C37.  Every challenge in the registry is eventually absent from it,
\* whether it is answered or not, when time advances and the sweep runs.
ChallengeEventuallyGone ==
  \A id \in 1..WindowChallenges :
    (id \in ids(challenges)) ~> (id \notin ids(challenges))

\* Every challenge the run may issue was issued, the lifetime of a challenge
\* has passed, and the sweep has left the registry empty, with nobody signed
\* in.
ChallengeEventuallyGoneSeen ==
  /\ ret.op = "cleanupChallenges"
  /\ challengesMade = WindowChallenges
  /\ challenges = {}
  /\ now >= CHALLENGE_EXPIRY_MS
  /\ user = NoUser

\* C38.  update, enableTwoFactor, disableTwoFactor, regenerateRecoveryCodes
\* and getRecoveryCodes fail as not authorised and change nothing when
\* nobody is signed in; when a user is signed in they change no account but
\* the one with the user's id, add and remove none, and the recovery codes
\* they return are that account's.
SessionOperationsScoped ==
  [][ret'.op \in {"update", "enableTwoFactor", "disableTwoFactor",
                  "regenerateRecoveryCodes", "getRecoveryCodes"}
     => IF user = NoUser
          THEN /\ ret'.status = "NotAuthorised"
               /\ UNCHANGED <<accounts, user, challenges, pendingVerification>>
          ELSE /\ DOMAIN accounts' = DOMAIN accounts
               /\ \A i \in DOMAIN accounts :
                    accounts[i].id # user.id => accounts'[i] = accounts[i]
               /\ (ret'.op = "getRecoveryCodes" /\ ret'.status = "ok")
                  => /\ ret'.out = accountOf(accounts, user.id).recoveryCodes
                     /\ accounts' = accounts
               /\ (ret'.op = "regenerateRecoveryCodes" /\ ret'.status = "ok")
                  => ret'.out = accountOf(accounts', user.id).recoveryCodes
               /\ (ret'.op = "enableTwoFactor" /\ ret'.status = "ok")
                  => ret'.out.recoveryCodes = accountOf(accounts', user.id).recoveryCodes
               /\ UNCHANGED <<challenges, pendingVerification>>]_vars

\* With two accounts stored, the signed-in user of the first one changed
\* its name: the second account is as it was registered.
SessionOperationsScopedSeen ==
  /\ ret.op = "update"
  /\ ret.status = "ok"
  /\ Len(accounts) = 2
  /\ user # NoUser
  /\ user.id = accounts[1].id
  /\ user.name = <<"B", "o", " ", "b">>
  /\ accounts[1].name = user.name
  /\ accounts[2].name = <<"A", "n", "a">>

\* C39.  Every account that has two-factor login on is verified.
TwoFactorOnlyWhenVerified ==
  \A i \in DOMAIN accounts : accounts[i].twoFactorEnabled => accounts[i].emailVerified

====
